---- MODULE Spec2Model ----
(***************************************************************************)
(* Digital Marketing Portal V3: the API route handlers and the services    *)
(* they call, as a state machine over the database tables, the storage     *)
(* bucket and the two process-wide singletons (IntegrationManager,         *)
(* CalendarGenerationService).                                             *)
(*                                                                         *)
(* A handler runs as one action.  It reads the request (credentials, body  *)
(* or query, and the outcomes of the calls that can fail), changes the     *)
(* tables it writes, and leaves in `last` the response together with the   *)
(* ordered list `ops` of the database / storage / provider calls it made.  *)
(* `Return` hands the response back and makes the server idle again.       *)
(***************************************************************************)
EXTENDS Integers, Sequences, FiniteSets, TLC

VARIABLES
  users,                    \* users table: id -> row (role, assigned_clients)
  clients,                  \* clients table: id -> row (deleted_at)
  monthly_analytics,        \* rows of monthly_analytics, oldest first
  storage,                  \* objects of the monthly-analytics bucket
  integration_configs,      \* rows of integration_configs, oldest first
  integration_posts,        \* rows of integration_posts
  calendar_entries,         \* calendar_entries: id -> row
  post_uploads,             \* rows of post_uploads
  campaign_uploads,         \* campaign_uploads: id -> row (with its campaign)
  campaign_upload_comments, \* rows of campaign_upload_comments
  artwork_uploads,          \* artwork_uploads: id -> row (with its artwork)
  artwork_upload_comments,  \* rows of artwork_upload_comments
  notification_templates,   \* rows of notification_templates
  notification_rules,       \* rows of notification_rules
  ai_calendar_generations,  \* rows of ai_calendar_generations
  manager,                  \* the IntegrationManager singleton
  service,                  \* the CalendarGenerationService singleton
  env,                      \* process.env: AI_PROVIDER, AI_API_KEY
  nreq,                     \* requests served so far
  last,                     \* the request being answered, with its response
  inflight,                 \* the requests being served concurrently, between awaits
  getSessionPromise,        \* apiClient's lock: the getSession call it holds, or null
  sessions,                 \* the supabase.auth.getSession() calls made, with their state
  timers,                   \* the calls whose 100 ms lock timer is armed
  callers                   \* the getAuthToken calls of the browser

vars == <<users, clients, monthly_analytics, storage, integration_configs,
          integration_posts, calendar_entries, post_uploads, campaign_uploads,
          campaign_upload_comments, artwork_uploads, artwork_upload_comments,
          notification_templates, notification_rules, ai_calendar_generations,
          manager, service, env, nreq, last, inflight,
          getSessionPromise, sessions, timers, callers>>

\* The state of the browser's ApiClient.
browser == <<getSessionPromise, sessions, timers, callers>>

\* The state of the requests that are served interleaved, and of the browser.
concurrent == <<inflight, browser>>

\* The state of the server.
server == <<users, clients, monthly_analytics, storage, integration_configs,
            integration_posts, calendar_entries, post_uploads, campaign_uploads,
            campaign_upload_comments, artwork_uploads, artwork_upload_comments,
            notification_templates, notification_rules, ai_calendar_generations,
            manager, service, env, nreq, last, inflight>>

(***************************************************************************)
(* Bounds of the model.                                                    *)
(***************************************************************************)
MaxRequests == 2
MaxFiles == 2
MaxRows == 1
MaxConcurrent == 2
MaxCallers == 2
MaxSessions == 2

(***************************************************************************)
(* Generic helpers.                                                        *)
(***************************************************************************)
Range(s) == {s[i] : i \in 1..Len(s)}

Min(a, b) == IF a < b THEN a ELSE b

Op(tbl, op) == [tbl |-> tbl, op |-> op]

WriteOps == {"insert", "update", "upload", "remove", "post"}

IsWrite(o) == o.op \in WriteOps

\* The ops of `ops` that touch one of the tables `tbls`.
Touches(ops, tbls) == \E i \in 1..Len(ops) : ops[i].tbl \in tbls

HasWrite(ops) == \E i \in 1..Len(ops) : IsWrite(ops[i])

Absent == "absent"

(***************************************************************************)
(* The users and clients tables.  No handler of the repository writes      *)
(* them; they hold one user per role / assignment shape and one            *)
(* soft-deleted client.                                                    *)
(***************************************************************************)
Roles == {"IT_ADMIN", "AGENCY_ADMIN", "CLIENT", "DESIGNER"}

UserIds == {"u_it", "u_ag1", "u_ag0", "u_ags", "u_cl1", "u_cl0", "u_de", "u_gx", "u_none"}

ClientIds == {"c1", "c2", "c3"}

\* "c9" is an id no clients row has.
ClientIdValues == ClientIds \cup {"c9"}

\* A JSON value of users.assigned_clients: an array, a bare string, or null.
Arr(s) == [kind |-> "array", items |-> s]

Str(c) == [kind |-> "string", items |-> <<c>>]

NullJson == [kind |-> "null", items |-> <<>>]

UserRow(role, assigned) == [exists |-> TRUE, role |-> role, assigned_clients |-> assigned]

NoUserRow == [exists |-> FALSE, role |-> "undefined", assigned_clients |-> NullJson]

InitUsers ==
  [u \in UserIds |->
     CASE u = "u_it"  -> UserRow("IT_ADMIN", NullJson)
       [] u = "u_ag1" -> UserRow("AGENCY_ADMIN", Arr(<<"c1", "c3">>))
       [] u = "u_ag0" -> UserRow("AGENCY_ADMIN", Arr(<<>>))
       [] u = "u_ags" -> UserRow("AGENCY_ADMIN", Str("c2"))
       [] u = "u_cl1" -> UserRow("CLIENT", Arr(<<"c1">>))
       [] u = "u_cl0" -> UserRow("CLIENT", NullJson)
       [] u = "u_de"  -> UserRow("DESIGNER", Arr(<<"c1">>))
       [] u = "u_gx"  -> UserRow("GUEST", Arr(<<"c2">>))
       [] OTHER       -> NoUserRow]

InitClients == [c \in ClientIds |-> [deleted_at |-> (c = "c3")]]

(***************************************************************************)
(* Authentication: the Authorization header and auth.getUser(token).       *)
(***************************************************************************)
NoUser == "no_user"

\* A token is the id of the user it was issued to, "t_bad" (getUser returns
\* an error) or "t_null" (getUser returns no error and no user).
Tokens == UserIds \cup {"t_bad", "t_null"}

Header(scheme, token) == [scheme |-> scheme, token |-> token]

Credentials ==
  {Header("none", "-"), Header("Basic", "u_it")} \cup {Header("Bearer", t) : t \in Tokens}

GetUser(token) ==
  IF token \in UserIds THEN [user |-> token, error |-> FALSE]
  ELSE IF token = "t_bad" THEN [user |-> NoUser, error |-> TRUE]
  ELSE [user |-> NoUser, error |-> FALSE]

\* Authenticate with the header's scheme left unchecked (only its presence).
AuthenticateAnyScheme(cred) ==
  IF cred.scheme = "none"
  THEN [ok |-> FALSE, user |-> NoUser]
  ELSE LET g == GetUser(cred.token) IN
       IF g.error \/ g.user = NoUser
       THEN [ok |-> FALSE, user |-> NoUser]
       ELSE [ok |-> TRUE, user |-> g.user]

\* The first lines of every handler: header present and starting with
\* 'Bearer ', then getUser(token) without error and with a user.
Authenticate(cred) ==
  IF cred.scheme # "Bearer"
  THEN [ok |-> FALSE, user |-> NoUser]
  ELSE LET g == GetUser(cred.token) IN
       IF g.error \/ g.user = NoUser
       THEN [ok |-> FALSE, user |-> NoUser]
       ELSE [ok |-> TRUE, user |-> g.user]

\* .from('users').select(...).eq('id', uid).single()
UsersSingle(uid) == IF users[uid].exists THEN users[uid] ELSE NoUserRow

UsersSelectOp == Op("users", "select")

(***************************************************************************)
(* Responses (lib/apiResponse helpers).                                    *)
(***************************************************************************)
OK == "ok"
CREATED == "created"
BAD_REQUEST == "badRequest"
UNAUTHORIZED == "unauthorized"
FORBIDDEN == "forbidden"
NOT_FOUND == "notFound"
SERVER_ERROR == "serverError"

NoBody == [kind |-> "none"]

Malformed == [kind |-> "malformed"]

\* What a handler run yields: the response (status, message, data) and the
\* calls it made, in order.
Resp(status, msg, data, ops) == [status |-> status, msg |-> msg, data |-> data, ops |-> ops]

Idle == [handler |-> "none", cred |-> Header("none", "-"), req |-> NoBody,
         status |-> "none", msg |-> "", data |-> NoBody, ops |-> <<>>, ext |-> NoBody]

\* The record a handler leaves in `last`.
Answer(handler, req, r, ext) ==
  [handler |-> handler, cred |-> req.cred, req |-> req, status |-> r.status,
   msg |-> r.msg, data |-> r.data, ops |-> r.ops, ext |-> ext]

(***************************************************************************)
(* GET and POST /api/integrations.                                         *)
(***************************************************************************)
IntegrationTypes == {"FACEBOOK", "INSTAGRAM", "TWITTER", "LINKEDIN", "CUSTOM"}

\* A stored credentials value: JSON null, the empty object, or an object
\* holding a secret.
CredentialValues == {"null", "{}", "secretA", "secretB"}

ConfigRow(id, name, type, enabled, credentials, settings, created_by) ==
  [id |-> id, name |-> name, type |-> type, enabled |-> enabled,
   credentials |-> credentials, settings |-> settings, created_by |-> created_by,
   deleted_at |-> FALSE]

Reverse(s) == [i \in 1..Len(s) |-> s[Len(s) + 1 - i]]

\* .select('*').is('deleted_at', null).order('created_at', descending)
ActiveConfigsNewestFirst(configs) == Reverse(SelectSeq(configs, LAMBDA c : ~c.deleted_at))

SafeIntegrationLeaky(c) == c

\* Remove sensitive credentials from response.
SafeIntegration(c) ==
  [c EXCEPT !.credentials = IF c.credentials # "null" THEN "configured:true"
                            ELSE "configured:false"]

SafeData(rows) == [i \in 1..Len(rows) |-> SafeIntegration(rows[i])]

\* The allow-list widened to the agency admins.
IsItAdminOrAgencyAdmin(row) == row.exists /\ row.role \in {"IT_ADMIN", "AGENCY_ADMIN"}

\* userData?.role !== 'IT_ADMIN' is the refusal.
IsItAdmin(row) == row.exists /\ row.role = "IT_ADMIN"

\* req: [cred, dbError]
IntegrationsGETRun(req, configs) ==
  LET auth == Authenticate(req.cred) IN
  IF ~auth.ok THEN Resp(UNAUTHORIZED, "Unauthorized", NoBody, <<>>)
  ELSE IF ~IsItAdmin(UsersSingle(auth.user))
  THEN Resp(UNAUTHORIZED, "Only IT Admin can view integrations", NoBody, <<UsersSelectOp>>)
  ELSE LET ops == <<UsersSelectOp, Op("integration_configs", "select")>> IN
       IF req.dbError
       THEN Resp(SERVER_ERROR, "Failed to fetch integrations", NoBody, ops)
       ELSE Resp(OK, "", SafeData(ActiveConfigsNewestFirst(configs)), ops)

IntegrationsGET(req) ==
  /\ last = Idle
  /\ last' = Answer("IntegrationsGET", req, IntegrationsGETRun(req, integration_configs), NoBody)
  /\ UNCHANGED <<concurrent, users, clients, monthly_analytics, storage, integration_configs,
                 integration_posts, calendar_entries, post_uploads, campaign_uploads,
                 campaign_upload_comments, artwork_uploads, artwork_upload_comments,
                 notification_templates, notification_rules, ai_calendar_generations,
                 manager, service, env>>

ValidTypes == {"FACEBOOK", "INSTAGRAM", "TWITTER", "LINKEDIN", "CUSTOM"}

NewConfigRowDisabledByDefault(body, id, uid) ==
  ConfigRow(id, body.name, body.type,
            IF body.enabled # Absent THEN body.enabled = "true" ELSE FALSE,
            IF body.credentials \notin {Absent, "null"} THEN body.credentials ELSE "{}",
            IF body.settings # Absent THEN body.settings ELSE "{}",
            uid)

\* The row POST inserts: credentials || {}, settings || {},
\* enabled !== undefined ? enabled : true.
NewConfigRow(body, id, uid) ==
  ConfigRow(id, body.name, body.type,
            IF body.enabled # Absent THEN body.enabled = "true" ELSE TRUE,
            IF body.credentials \notin {Absent, "null"} THEN body.credentials ELSE "{}",
            IF body.settings # Absent THEN body.settings ELSE "{}",
            uid)

\* req: [cred, body, dbError]; body: Malformed or [name, type, credentials, settings, enabled]
IntegrationsPOSTRun(req, configs) ==
  LET auth == Authenticate(req.cred) IN
  IF ~auth.ok THEN Resp(UNAUTHORIZED, "Unauthorized", NoBody, <<>>)
  ELSE IF ~IsItAdmin(UsersSingle(auth.user))
  THEN Resp(UNAUTHORIZED, "Only IT Admin can create integrations", NoBody, <<UsersSelectOp>>)
  ELSE IF req.body = Malformed
  THEN Resp(SERVER_ERROR, "Internal server error", NoBody, <<UsersSelectOp>>)
  ELSE IF req.body.name = Absent \/ req.body.type = Absent
  THEN Resp(BAD_REQUEST, "Name and type are required", NoBody, <<UsersSelectOp>>)
  ELSE IF req.body.type \notin ValidTypes
  THEN Resp(BAD_REQUEST, "Invalid type", NoBody, <<UsersSelectOp>>)
  ELSE LET ops == <<UsersSelectOp, Op("integration_configs", "insert")>> IN
       IF req.dbError
       THEN Resp(SERVER_ERROR, "Failed to create integration", NoBody, ops)
       ELSE Resp(OK, "", NewConfigRow(req.body, Len(configs) + 1, auth.user), ops)

IntegrationsPOST(req) ==
  LET r == IntegrationsPOSTRun(req, integration_configs) IN
  /\ last = Idle
  /\ integration_configs' = IF r.status = OK THEN Append(integration_configs, r.data)
                            ELSE integration_configs
  /\ Len(integration_configs') <= MaxRows
  /\ last' = Answer("IntegrationsPOST", req, r, NoBody)
  /\ UNCHANGED <<concurrent, users, clients, monthly_analytics, storage,
                 integration_posts, calendar_entries, post_uploads, campaign_uploads,
                 campaign_upload_comments, artwork_uploads, artwork_upload_comments,
                 notification_templates, notification_rules, ai_calendar_generations,
                 manager, service, env>>

(***************************************************************************)
(* GET, POST and PUT /api/notifications/manage, with the methods of        *)
(* NotificationManagementService they call.  A service method that gets a  *)
(* database error throws; the handler's catch answers serverError().       *)
(***************************************************************************)
NotificationTables == {"notifications", "notification_templates", "notification_rules"}

ManagementTables == {"integration_configs"} \cup NotificationTables

ItemRow(id, name) == [id |-> id, name |-> name]

\* req: [cred, type, dbError]
NotificationsGETRun(req) ==
  LET auth == Authenticate(req.cred) IN
  IF ~auth.ok THEN Resp(UNAUTHORIZED, "Unauthorized", NoBody, <<>>)
  ELSE IF ~IsItAdmin(UsersSingle(auth.user))
  THEN Resp(UNAUTHORIZED, "Only IT Admin can manage notifications", NoBody, <<UsersSelectOp>>)
  ELSE LET ops == <<UsersSelectOp>> \o
                  CASE req.type = "stats"     -> <<Op("notifications", "select")>>
                    [] req.type = "templates" -> <<Op("notification_templates", "select")>>
                    [] req.type = "rules"     -> <<Op("notification_rules", "select")>>
                    [] OTHER -> <<Op("notifications", "select"),
                                  Op("notification_templates", "select"),
                                  Op("notification_rules", "select")>>
       IN IF req.dbError
          THEN Resp(SERVER_ERROR, "Internal server error", NoBody, ops)
          ELSE Resp(OK, "",
                    [stats |-> req.type \notin {"templates", "rules"},
                     templates |-> IF req.type \in {"stats", "rules"} THEN <<>>
                                   ELSE Reverse(notification_templates),
                     rules |-> IF req.type \in {"stats", "templates"} THEN <<>>
                               ELSE Reverse(notification_rules)],
                    ops)

NotificationsGET(req) ==
  /\ last = Idle
  /\ last' = Answer("NotificationsGET", req, NotificationsGETRun(req), NoBody)
  /\ UNCHANGED <<concurrent, users, clients, monthly_analytics, storage, integration_configs,
                 integration_posts, calendar_entries, post_uploads, campaign_uploads,
                 campaign_upload_comments, artwork_uploads, artwork_upload_comments,
                 notification_templates, notification_rules, ai_calendar_generations,
                 manager, service, env>>

ActionTable(action) == IF action = "template" THEN "notification_templates" ELSE "notification_rules"

\* req: [cred, body, dbError]; body: Malformed or [action, id, data].
\* createTemplate / createRule read itemData.name: a missing `data` throws
\* before the insert is issued.
NotificationsPOSTRun(req) ==
  LET auth == Authenticate(req.cred) IN
  IF ~auth.ok THEN Resp(UNAUTHORIZED, "Unauthorized", NoBody, <<>>)
  ELSE IF ~IsItAdmin(UsersSingle(auth.user))
  THEN Resp(UNAUTHORIZED, "Only IT Admin can manage notifications", NoBody, <<UsersSelectOp>>)
  ELSE IF req.body = Malformed
  THEN Resp(SERVER_ERROR, "Internal server error", NoBody, <<UsersSelectOp>>)
  ELSE IF req.body.action \notin {"template", "rule"}
  THEN Resp(BAD_REQUEST, "Invalid action", NoBody, <<UsersSelectOp>>)
  ELSE IF req.body.data = Absent
  THEN Resp(SERVER_ERROR, "Internal server error", NoBody, <<UsersSelectOp>>)
  ELSE LET ops == <<UsersSelectOp, Op(ActionTable(req.body.action), "insert")>> IN
       IF req.dbError
       THEN Resp(SERVER_ERROR, "Internal server error", NoBody, ops)
       ELSE Resp(OK, "", [action |-> req.body.action, name |-> req.body.data], ops)

NotificationsPOST(req) ==
  LET r == NotificationsPOSTRun(req)
      done == r.status = OK
  IN
  /\ last = Idle
  /\ notification_templates' =
        IF done /\ r.data.action = "template"
        THEN Append(notification_templates, ItemRow(Len(notification_templates) + 1, r.data.name))
        ELSE notification_templates
  /\ notification_rules' =
        IF done /\ r.data.action = "rule"
        THEN Append(notification_rules, ItemRow(Len(notification_rules) + 1, r.data.name))
        ELSE notification_rules
  /\ Len(notification_templates') <= MaxRows
  /\ Len(notification_rules') <= MaxRows
  /\ last' = Answer("NotificationsPOST", req, r, NoBody)
  /\ UNCHANGED <<concurrent, users, clients, monthly_analytics, storage, integration_configs,
                 integration_posts, calendar_entries, post_uploads, campaign_uploads,
                 campaign_upload_comments, artwork_uploads, artwork_upload_comments,
                 ai_calendar_generations, manager, service, env>>

\* .update({...updates, updated_at}).eq('id', id).select().single(): the
\* row is changed when it exists; .single() reports an error when no row
\* has that id.
UpdateItem(rows, id, data) ==
  [i \in 1..Len(rows) |-> IF rows[i].id = id /\ data # Absent
                          THEN [rows[i] EXCEPT !.name = data] ELSE rows[i]]

HasItem(rows, id) == \E i \in 1..Len(rows) : rows[i].id = id

\* req: [cred, body, dbError]; body: Malformed or [action, id, data]; id 0 is
\* a body without id.
NotificationsPUTRun(req) ==
  LET auth == Authenticate(req.cred) IN
  IF ~auth.ok THEN Resp(UNAUTHORIZED, "Unauthorized", NoBody, <<>>)
  ELSE IF ~IsItAdmin(UsersSingle(auth.user))
  THEN Resp(UNAUTHORIZED, "Only IT Admin can manage notifications", NoBody, <<UsersSelectOp>>)
  ELSE IF req.body = Malformed
  THEN Resp(SERVER_ERROR, "Internal server error", NoBody, <<UsersSelectOp>>)
  ELSE IF req.body.id = 0
  THEN Resp(BAD_REQUEST, "ID is required", NoBody, <<UsersSelectOp>>)
  ELSE IF req.body.action \notin {"template", "rule"}
  THEN Resp(BAD_REQUEST, "Invalid action", NoBody, <<UsersSelectOp>>)
  ELSE LET ops == <<UsersSelectOp, Op(ActionTable(req.body.action), "update")>>
           rows == IF req.body.action = "template" THEN notification_templates
                   ELSE notification_rules
           failed == req.dbError \/ ~HasItem(rows, req.body.id)
       IN IF failed
          THEN Resp(SERVER_ERROR,
                    IF req.body.action = "rule" THEN "Failed to update rule"
                    ELSE "Internal server error",
                    [applied |-> ~req.dbError], ops)
          ELSE Resp(OK, "", [applied |-> TRUE], ops)

NotificationsPUT(req) ==
  LET r == NotificationsPUTRun(req)
      applied == r.data # NoBody /\ r.data.applied
  IN
  /\ last = Idle
  /\ notification_templates' =
        IF applied /\ req.body.action = "template"
        THEN UpdateItem(notification_templates, req.body.id, req.body.data)
        ELSE notification_templates
  /\ notification_rules' =
        IF applied /\ req.body.action = "rule"
        THEN UpdateItem(notification_rules, req.body.id, req.body.data)
        ELSE notification_rules
  /\ last' = Answer("NotificationsPUT", req, r, NoBody)
  /\ UNCHANGED <<concurrent, users, clients, monthly_analytics, storage, integration_configs,
                 integration_posts, calendar_entries, post_uploads, campaign_uploads,
                 campaign_upload_comments, artwork_uploads, artwork_upload_comments,
                 ai_calendar_generations, manager, service, env>>

(***************************************************************************)
(* PUT /api/artwork-uploads/{id} and POST /api/artwork-uploads/{id}/comments *)
(***************************************************************************)
ArtworkUploadIds == {"a1", "a2"}

\* "a9" is an id no artwork_uploads row has.
ArtworkUploadIdValues == ArtworkUploadIds \cup {"a9"}

InitArtworkUploads ==
  [a \in ArtworkUploadIds |->
     IF a = "a1"
     THEN [approved |-> FALSE,
           artworks |-> [created_by |-> "u_de", designer_owner |-> "u_de", campaign_client |-> "c1"]]
     ELSE [approved |-> FALSE,
           artworks |-> [created_by |-> "u_none", designer_owner |-> "u_gx", campaign_client |-> "c2"]]]

\* userData.assigned_clients?.includes(c): membership for an array, the
\* substring test for a string (equality, for ids of one length), undefined
\* for null.
AssignedIncludes(row, c) ==
  row.assigned_clients.kind \in {"array", "string"} /\ c \in Range(row.assigned_clients.items)

\* canApprove with the CLIENT role alone sufficing.
CanApproveAnyClient(row, artwork, uid) ==
  \/ row.role \in {"IT_ADMIN", "AGENCY_ADMIN", "CLIENT"}
  \/ artwork.created_by = uid

CanApprove(row, artwork, uid) ==
  \/ row.role = "IT_ADMIN"
  \/ row.role = "AGENCY_ADMIN"
  \/ (row.role = "CLIENT" /\ AssignedIncludes(row, artwork.campaign_client))
  \/ artwork.created_by = uid

\* comment && comment.trim()
HasText(t) == t \notin {Absent, "blank"}

\* req: [cred, id, body, dbError, commentError];
\* body: Malformed or [approved, comment], approved one of "true", "false",
\* Absent, "yes" (a value that is not a boolean).
ArtworkUploadsPUTRun(req) ==
  LET auth == Authenticate(req.cred) IN
  IF ~auth.ok THEN Resp(UNAUTHORIZED, "Unauthorized", NoBody, <<>>)
  ELSE IF req.body = Malformed
  THEN Resp(SERVER_ERROR, "Internal server error", NoBody, <<>>)
  ELSE IF req.id \notin ArtworkUploadIds
  THEN Resp(NOT_FOUND, "Upload not found", NoBody, <<Op("artwork_uploads", "select")>>)
  ELSE LET artwork == artwork_uploads[req.id].artworks
           ops1 == <<Op("artwork_uploads", "select"), UsersSelectOp>>
           ops2 == Append(ops1, Op("artwork_uploads", "update"))
       IN
       IF ~CanApprove(UsersSingle(auth.user), artwork, auth.user)
       THEN Resp(UNAUTHORIZED, "You do not have permission to approve this upload", NoBody, ops1)
       ELSE IF req.dbError
       THEN Resp(SERVER_ERROR, "Failed to update upload", NoBody, ops2)
       ELSE Resp(OK, "", [updated |-> TRUE],
                 IF HasText(req.body.comment)
                 THEN Append(ops2, Op("artwork_upload_comments", "insert")) ELSE ops2)

CommentTypeOf(approved) ==
  IF approved = "true" THEN "approval" ELSE IF approved = "false" THEN "disapproval" ELSE "feedback"

ArtworkUploadsPUT(req) ==
  LET r == ArtworkUploadsPUTRun(req) IN
  /\ last = Idle
  /\ artwork_uploads' =
        IF r.status = OK /\ req.body.approved \in {"true", "false"}
        THEN [artwork_uploads EXCEPT ![req.id].approved = (req.body.approved = "true")]
        ELSE artwork_uploads
  /\ artwork_upload_comments' =
        IF r.status = OK /\ HasText(req.body.comment) /\ ~req.commentError
        THEN Append(artwork_upload_comments,
                    [artwork_upload_id |-> req.id, user_id |-> Authenticate(req.cred).user,
                     comment_type |-> CommentTypeOf(req.body.approved)])
        ELSE artwork_upload_comments
  /\ Len(artwork_upload_comments') <= MaxRows
  /\ last' = Answer("ArtworkUploadsPUT", req, r, NoBody)
  /\ UNCHANGED <<concurrent, users, clients, monthly_analytics, storage, integration_configs,
                 integration_posts, calendar_entries, post_uploads, campaign_uploads,
                 campaign_upload_comments, notification_templates, notification_rules,
                 ai_calendar_generations, manager, service, env>>

CanComment(row, artwork, uid) ==
  \/ row.role \in {"IT_ADMIN", "AGENCY_ADMIN", "CLIENT"}
  \/ artwork.created_by = uid
  \/ artwork.designer_owner = uid
  \/ (row.role = "DESIGNER" /\ (\/ artwork.designer_owner = uid
                                 \/ AssignedIncludes(row, artwork.campaign_client)))

\* req: [cred, id, body, dbError]; body: Malformed or [commentText, commentType]
ArtworkCommentsPOSTRun(req) ==
  LET auth == Authenticate(req.cred) IN
  IF ~auth.ok THEN Resp(UNAUTHORIZED, "Unauthorized", NoBody, <<>>)
  ELSE IF req.body = Malformed
  THEN Resp(SERVER_ERROR, "Internal server error", NoBody, <<>>)
  ELSE IF ~HasText(req.body.commentText)
  THEN Resp(BAD_REQUEST, "commentText is required", NoBody, <<>>)
  ELSE IF req.id \notin ArtworkUploadIds
  THEN Resp(NOT_FOUND, "Upload not found", NoBody, <<Op("artwork_uploads", "select")>>)
  ELSE LET artwork == artwork_uploads[req.id].artworks
           ops1 == <<Op("artwork_uploads", "select"), UsersSelectOp>>
           ops2 == Append(ops1, Op("artwork_upload_comments", "insert"))
       IN
       IF ~CanComment(UsersSingle(auth.user), artwork, auth.user)
       THEN Resp(UNAUTHORIZED, "You do not have permission to comment on this upload", NoBody, ops1)
       ELSE IF req.dbError
       THEN Resp(SERVER_ERROR, "Failed to add comment", NoBody, ops2)
       ELSE Resp(OK, "",
                 [artwork_upload_id |-> req.id, user_id |-> auth.user,
                  comment_type |-> IF req.body.commentType = Absent THEN "feedback"
                                   ELSE req.body.commentType],
                 ops2)

ArtworkCommentsPOST(req) ==
  LET r == ArtworkCommentsPOSTRun(req) IN
  /\ last = Idle
  /\ artwork_upload_comments' =
        IF r.status = OK THEN Append(artwork_upload_comments, r.data)
        ELSE artwork_upload_comments
  /\ Len(artwork_upload_comments') <= MaxRows
  /\ last' = Answer("ArtworkCommentsPOST", req, r, NoBody)
  /\ UNCHANGED <<concurrent, users, clients, monthly_analytics, storage, integration_configs,
                 integration_posts, calendar_entries, post_uploads, campaign_uploads,
                 campaign_upload_comments, artwork_uploads, notification_templates,
                 notification_rules, ai_calendar_generations, manager, service, env>>

(***************************************************************************)
(* POST /api/campaign-uploads/{id}/comments                                *)
(***************************************************************************)
CampaignUploadIds == {"cu1", "cu2"}

\* "cu9" is an id no campaign_uploads row has.
CampaignUploadIdValues == CampaignUploadIds \cup {"cu9"}

InitCampaignUploads ==
  [u \in CampaignUploadIds |->
     IF u = "cu1"
     THEN [approved |-> FALSE,
           campaign |-> [client_id |-> "c1", assigned_users |-> <<"u_gx">>, created_by |-> "u_de"]]
     ELSE [approved |-> TRUE,
           campaign |-> [client_id |-> "c2", assigned_users |-> <<>>, created_by |-> "u_de"]]]

\* Array.isArray(assigned_clients) ? its strings : []
AssignedArrayOnly(row) ==
  IF row.assigned_clients.kind = "array" THEN row.assigned_clients.items ELSE <<>>

HasCommentAccess(row, campaign, uid) ==
  \/ row.role \in {"IT_ADMIN", "AGENCY_ADMIN"}
  \/ campaign.created_by = uid
  \/ uid \in Range(campaign.assigned_users)
  \/ campaign.client_id \in Range(AssignedArrayOnly(row))

\* A commentText that is not a string (a number): it is truthy and has no
\* trim method.
NonString == "number"

\* The exception the body raises: request.json() on a malformed body, or
\* commentText.trim() on a commentText that is not a string.
BodyThrows(body) ==
  IF body = Malformed THEN "SyntaxError"
  ELSE IF body.commentText = NonString THEN "TypeError"
  ELSE "none"

\* serverError(`Internal server error: ${errorMessage}`) of the catch.
CatchMessage(exception) ==
  IF exception = "SyntaxError"
  THEN "Internal server error: Unexpected token in JSON"
  ELSE "Internal server error: commentText.trim is not a function"

\* req: [cred, id, body, dbError]; body: Malformed or [commentText].
\* The catch of this handler puts the exception's message in the response.
\* The handler on the campaign_uploads table `uploads`.
CampaignCommentsPOSTOn(req, uploads) ==
  LET auth == Authenticate(req.cred) IN
  IF ~auth.ok THEN Resp(UNAUTHORIZED, "Unauthorized", NoBody, <<>>)
  ELSE IF BodyThrows(req.body) # "none"
  THEN Resp(SERVER_ERROR, CatchMessage(BodyThrows(req.body)), NoBody, <<>>)
  ELSE IF ~HasText(req.body.commentText)
  THEN Resp(BAD_REQUEST, "Comment text is required", NoBody, <<>>)
  ELSE IF req.id \notin CampaignUploadIds
  THEN Resp(NOT_FOUND, "Upload not found", NoBody, <<Op("campaign_uploads", "select")>>)
  ELSE IF uploads[req.id].approved
  THEN Resp(BAD_REQUEST, "Cannot add comments to approved uploads", NoBody,
            <<Op("campaign_uploads", "select")>>)
  ELSE LET campaign == uploads[req.id].campaign
           row == UsersSingle(auth.user)
           ops1 == <<Op("campaign_uploads", "select"), UsersSelectOp>>
           ops2 == Append(ops1, Op("campaign_upload_comments", "insert"))
       IN
       IF ~row.exists
       THEN Resp(UNAUTHORIZED, "User not found", NoBody, ops1)
       ELSE IF ~HasCommentAccess(row, campaign, auth.user)
       THEN Resp(UNAUTHORIZED, "You do not have access to comment on this upload", NoBody, ops1)
       ELSE IF req.dbError
       THEN Resp(SERVER_ERROR, "Failed to add comment", NoBody, ops2)
       ELSE Resp(OK, "",
                 [campaign_upload_id |-> req.id, user_id |-> auth.user,
                  comment_type |-> "feedback"], ops2)

CampaignCommentsPOSTRun(req) == CampaignCommentsPOSTOn(req, campaign_uploads)

CampaignCommentsPOST(req) ==
  LET r == CampaignCommentsPOSTRun(req) IN
  /\ last = Idle
  /\ campaign_upload_comments' =
        IF r.status = OK THEN Append(campaign_upload_comments, r.data)
        ELSE campaign_upload_comments
  /\ Len(campaign_upload_comments') <= MaxRows
  /\ last' = Answer("CampaignCommentsPOST", req, r, NoBody)
  /\ UNCHANGED <<concurrent, users, clients, monthly_analytics, storage, integration_configs,
                 integration_posts, calendar_entries, post_uploads, campaign_uploads,
                 artwork_uploads, artwork_upload_comments, notification_templates,
                 notification_rules, ai_calendar_generations, manager, service, env>>

(***************************************************************************)
(* GET /api/monthly-analytics                                              *)
(***************************************************************************)
DefaultLimit == 100
MaxLimit == 500

Months == {"2025-01", "2025-02"}

\* 'YYYY-MM' to the first day of that month, 'YYYY-MM-DD' (server clock in UTC).
MonthDate(m) == IF m = "2025-01" THEN "2025-01-01" ELSE "2025-02-01"

MonthDates == {MonthDate(m) : m \in Months}

\* The limit query parameter: missing, not a number, or an integer.
LimitAbsent == [kind |-> "absent", val |-> 0]

LimitText == [kind |-> "text", val |-> 0]

LimitInt(n) == [kind |-> "int", val |-> n]

\* Math.min(parseInt(param || '100', 10) || 100, 500)
EffectiveLimit(p) ==
  Min(IF p.kind = "int" /\ p.val # 0 THEN p.val ELSE DefaultLimit, MaxLimit)

\* Array.isArray(a) ? a : (typeof a === 'string' ? [a] : [])
AssignedClients(row) ==
  IF row.assigned_clients.kind \in {"array", "string"} THEN row.assigned_clients.items ELSE <<>>

Take(rows, n) == SubSeq(rows, 1, Min(n, Len(rows)))

FilteredRoles == {"CLIENT", "AGENCY_ADMIN"}

RoleFilterClientOnly(row, rows) ==
  IF row.role = "CLIENT"
  THEN SelectSeq(rows, LAMBDA r : r.client_id \in Range(AssignedClients(row)))
  ELSE rows

\* query.in('client_id', assignedClients) for CLIENT and AGENCY_ADMIN; no
\* filter for the other roles.
RoleFilter(row, rows) ==
  IF row.role \in FilteredRoles
  THEN SelectSeq(rows, LAMBDA r : r.client_id \in Range(AssignedClients(row)))
  ELSE rows

\* The optional filters: .eq('client_id', clientId), .eq('month', month)
OptionalFilters(req, rows) ==
  SelectSeq(rows, LAMBDA r : /\ (req.clientId # Absent => r.client_id = req.clientId)
                             /\ (req.month # Absent => r.month = req.month))

\* req: [cred, clientId, month, limit, dbError].  A negative limit is sent
\* to the database as it is: the query then fails, or runs without a limit.
MonthlyAnalyticsGETRun(req, table) ==
  LET auth == Authenticate(req.cred) IN
  IF ~auth.ok THEN Resp(UNAUTHORIZED, "Unauthorized", NoBody, <<>>)
  ELSE LET row == UsersSingle(auth.user)
           limit == EffectiveLimit(req.limit)
           ops == <<UsersSelectOp, Op("monthly_analytics", "select")>>
           matching == OptionalFilters(req, RoleFilter(row, Reverse(table)))
       IN
       IF ~row.exists
       THEN Resp(UNAUTHORIZED, "User not found", NoBody, <<UsersSelectOp>>)
       ELSE IF row.role \in FilteredRoles /\ Len(AssignedClients(row)) = 0
       THEN Resp(OK, "", <<>>, <<UsersSelectOp>>)
       ELSE IF req.dbError
       THEN Resp(SERVER_ERROR, "Failed to fetch monthly analytics", NoBody, ops)
       ELSE Resp(OK, "", IF limit < 0 THEN matching ELSE Take(matching, limit), ops)

MonthlyAnalyticsGET(req) ==
  /\ last = Idle
  /\ last' = Answer("MonthlyAnalyticsGET", req,
                    MonthlyAnalyticsGETRun(req, monthly_analytics),
                    [limit |-> EffectiveLimit(req.limit)])
  /\ UNCHANGED <<concurrent, users, clients, monthly_analytics, storage, integration_configs,
                 integration_posts, calendar_entries, post_uploads, campaign_uploads,
                 campaign_upload_comments, artwork_uploads, artwork_upload_comments,
                 notification_templates, notification_rules, ai_calendar_generations,
                 manager, service, env>>

(***************************************************************************)
(* POST /api/monthly-analytics                                             *)
(***************************************************************************)
FileNames == <<"f1", "f2", "f3", "f4">>

\* What happens to one file: uploaded, refused by the storage (uploadError),
\* or an exception before the upload is issued (file.arrayBuffer()).
UploadOutcomes == {"ok", "error", "throw"}

LoopStart == [attachments |-> <<>>, uploadErrors |-> <<>>, uploadedPaths |-> <<>>, ops |-> <<>>]

Path(clientId, monthStr, file) == [client |-> clientId, month |-> monthStr, name |-> file]

LoopStepDropsThrown(st, clientId, monthStr, file, outcome) ==
  CASE outcome = "ok" ->
         [attachments |-> Append(st.attachments, file),
          uploadErrors |-> st.uploadErrors,
          uploadedPaths |-> Append(st.uploadedPaths, Path(clientId, monthStr, file)),
          ops |-> Append(st.ops, Op("storage", "upload"))]
    [] outcome = "error" ->
         [st EXCEPT !.uploadErrors = Append(@, file),
                    !.ops = Append(@, Op("storage", "upload"))]
    [] OTHER -> st

\* One iteration of the upload loop.
LoopStep(st, clientId, monthStr, file, outcome) ==
  CASE outcome = "ok" ->
         [attachments |-> Append(st.attachments, file),
          uploadErrors |-> st.uploadErrors,
          uploadedPaths |-> Append(st.uploadedPaths, Path(clientId, monthStr, file)),
          ops |-> Append(st.ops, Op("storage", "upload"))]
    [] outcome = "error" ->
         [st EXCEPT !.uploadErrors = Append(@, file),
                    !.ops = Append(@, Op("storage", "upload"))]
    [] OTHER ->
         [st EXCEPT !.uploadErrors = Append(@, file)]

RECURSIVE UploadLoop(_, _, _, _, _)
\* The loop's variables after the first k files.
UploadLoop(clientId, monthStr, files, outcomes, k) ==
  IF k = 0 THEN LoopStart
  ELSE LoopStep(UploadLoop(clientId, monthStr, files, outcomes, k - 1),
                clientId, monthStr, files[k], outcomes[k])

\* Only IT_ADMIN and AGENCY_ADMIN can upload.
CanUpload(row) == row.role \in {"IT_ADMIN", "AGENCY_ADMIN"}

HasClientAccessAlways(row, clientId) == TRUE

\* Validate client access for AGENCY_ADMIN.
HasClientAccess(row, clientId) ==
  row.role = "AGENCY_ADMIN" => clientId \in Range(AssignedClients(row))

\* .from('clients').eq('id', clientId).is('deleted_at', null).single()
ClientExists(clientId) == clientId \in ClientIds /\ ~clients[clientId].deleted_at

AnalyticsRow(clientId, monthStr, uid, attachments) ==
  [client_id |-> clientId, month |-> MonthDate(monthStr), uploaded_by |-> uid,
   attachments |-> attachments]

\* The records uploaded before: one for c1, one for c2, and one uploaded for
\* c3 before that client was soft-deleted.
InitMonthlyAnalytics ==
  << AnalyticsRow("c1", "2025-01", "u_it", <<"f1">>),
     AnalyticsRow("c3", "2025-01", "u_ag1", <<"f1">>),
     AnalyticsRow("c2", "2025-02", "u_it", <<"f1", "f2">>) >>

InitStorage ==
  << Path("c1", "2025-01", "f1"), Path("c3", "2025-01", "f1"),
     Path("c2", "2025-02", "f1"), Path("c2", "2025-02", "f2") >>

RemoveUploadedLastOnly(store, paths, removeError) ==
  IF removeError THEN store ELSE SubSeq(store, 1, Len(store) - 1)

\* storage.from('monthly-analytics').remove(uploadedPaths), whose result the
\* handler does not read.  A path holds Date.now(), so the call names the
\* objects this request stored and no other: the last Len(paths) of the
\* bucket.  A refused remove leaves the bucket as it is.
RemoveUploaded(store, paths, removeError) ==
  IF removeError THEN store ELSE SubSeq(store, 1, Len(store) - Len(paths))

\* The checks that precede the upload loop: the refusal, or "pass".
\* req: [cred, clientId, month, files, outcomes, dbError, removeError]
MonthlyAnalyticsPOSTChecks(req) ==
  LET auth == Authenticate(req.cred) IN
  IF ~auth.ok THEN Resp(UNAUTHORIZED, "Unauthorized", NoBody, <<>>)
  ELSE LET row == UsersSingle(auth.user)
           ops1 == <<UsersSelectOp>>
           ops2 == Append(ops1, Op("clients", "select"))
       IN
       IF ~row.exists
       THEN Resp(UNAUTHORIZED, "User not found", NoBody, ops1)
       ELSE IF ~CanUpload(row)
       THEN Resp(FORBIDDEN, "Only IT Admin and Agency Admin can upload analytics", NoBody, ops1)
       ELSE IF req.clientId = Absent \/ req.month = Absent \/ Len(req.files) = 0
       THEN Resp(BAD_REQUEST, "Missing required fields: clientId, month, files", NoBody, ops1)
       ELSE IF ~HasClientAccess(row, req.clientId)
       THEN Resp(FORBIDDEN, "You do not have access to this client", NoBody, ops1)
       ELSE IF ~ClientExists(req.clientId)
       THEN Resp(BAD_REQUEST, "Client not found or deleted", NoBody, ops2)
       ELSE Resp("pass", "", NoBody, ops2)

\* The upload loop, the insert and the response.
MonthlyAnalyticsPOSTRun(req) ==
  LET checks == MonthlyAnalyticsPOSTChecks(req) IN
  IF checks.status # "pass" THEN checks
  ELSE LET loop == UploadLoop(req.clientId, req.month, req.files, req.outcomes, Len(req.files))
           ops3 == checks.ops \o loop.ops
           ops4 == Append(ops3, Op("monthly_analytics", "insert"))
       IN
       IF Len(loop.attachments) = 0
       THEN Resp(BAD_REQUEST, "Failed to upload all files",
                 [kind |-> "errors", errors |-> loop.uploadErrors], ops3)
       ELSE IF req.dbError
       THEN Resp(SERVER_ERROR, "Failed to save analytics record", NoBody,
                 IF Len(loop.uploadedPaths) > 0
                 THEN Append(ops4, Op("storage", "remove")) ELSE ops4)
       ELSE Resp(CREATED, "",
                 AnalyticsRow(req.clientId, req.month, Authenticate(req.cred).user,
                              loop.attachments), ops4)

MonthlyAnalyticsPOST(req) ==
  LET r == MonthlyAnalyticsPOSTRun(req)
      n == Len(req.files)
      ran == MonthlyAnalyticsPOSTChecks(req).status = "pass"
      loop == UploadLoop(req.clientId, req.month, req.files, req.outcomes, n)
  IN
  /\ last = Idle
  /\ monthly_analytics' = IF r.status = CREATED THEN Append(monthly_analytics, r.data)
                          ELSE monthly_analytics
  /\ Len(monthly_analytics') <= Len(InitMonthlyAnalytics) + MaxRows
  \* uploaded objects stay unless the failed insert's cleanup removes them
  /\ storage' = IF ~ran THEN storage
                ELSE IF Len(loop.attachments) > 0 /\ req.dbError /\ Len(loop.uploadedPaths) > 0
                THEN RemoveUploaded(storage \o loop.uploadedPaths, loop.uploadedPaths,
                                    req.removeError)
                ELSE storage \o loop.uploadedPaths
  /\ Len(storage') <= Len(InitStorage) + MaxRows * MaxFiles
  /\ last' = Answer("MonthlyAnalyticsPOST", req, r,
                    [ran |-> ran,
                     steps |-> IF ran
                               THEN [k \in 0..n |->
                                       LET st == UploadLoop(req.clientId, req.month,
                                                            req.files, req.outcomes, k)
                                       IN [attachments |-> st.attachments,
                                           uploadErrors |-> st.uploadErrors]]
                               ELSE [k \in 0..0 |-> [attachments |-> <<>>, uploadErrors |-> <<>>]]])
  /\ UNCHANGED <<concurrent, users, clients, integration_configs,
                 integration_posts, calendar_entries, post_uploads, campaign_uploads,
                 campaign_upload_comments, artwork_uploads, artwork_upload_comments,
                 notification_templates, notification_rules, ai_calendar_generations,
                 manager, service, env>>

(***************************************************************************)
(* CalendarGenerationService and POST /api/ai/calendar/generate            *)
(***************************************************************************)
NoKey == "null"

\* initialize(provider, apiKey): the route passes the body's aiProvider and
\* no key.
Initialize(provider, e) ==
  [aiProvider |-> IF provider # Absent THEN provider
                  ELSE IF e.AI_PROVIDER # Absent THEN e.AI_PROVIDER ELSE "openai",
   apiKey |-> IF e.AI_API_KEY # Absent THEN e.AI_API_KEY ELSE NoKey]

\* getClientIds: the given id as it is, else the ids of the clients with
\* deleted_at null (in id order).
GetClientIds(clientId) ==
  IF clientId # Absent THEN <<clientId>>
  ELSE SelectSeq(<<"c1", "c2", "c3">>, LAMBDA c : ~clients[c].deleted_at)

\* generateForClient's lookup: .from('clients').eq('id', clientId).single()
ClientFound(clientId) == clientId \in ClientIds

CallAIIgnoresKey(svc) == [threw |-> FALSE, response |-> "[]"]

\* callAI: throws without a key, else the placeholder response.
CallAI(svc) == IF svc.apiKey = NoKey THEN [threw |-> TRUE, response |-> ""]
               ELSE [threw |-> FALSE, response |-> "[]"]

\* parseAIResponse: the entries of a JSON array; "[]" holds none, anything
\* else read here is not an array.
ParseAIResponse(response, clientId) == <<>>

RECURSIVE GenerateLoop(_, _, _)
\* The loop of generateCalendar over the first k client ids: the entries
\* collected, the clients callAI was called for, the calls made, and
\* whether callAI threw (which ends the loop).
GenerateLoop(ids, svc, k) ==
  IF k = 0 THEN [entries |-> <<>>, aiCalls |-> <<>>, ops |-> <<>>, threw |-> FALSE]
  ELSE LET st == GenerateLoop(ids, svc, k - 1)
           ops == Append(st.ops, Op("clients", "select"))
       IN IF st.threw THEN st
          ELSE IF ~ClientFound(ids[k]) THEN [st EXCEPT !.ops = ops]
          ELSE LET ai == CallAI(svc) IN
               [entries |-> IF ai.threw THEN st.entries
                            ELSE st.entries \o ParseAIResponse(ai.response, ids[k]),
                aiCalls |-> Append(st.aiCalls, ids[k]),
                ops |-> Append(ops, Op("ai", "call")),
                threw |-> ai.threw]

\* generateCalendar(request)
GenerateCalendar(clientId, svc) ==
  LET ids == GetClientIds(clientId)
      listOps == IF clientId # Absent THEN <<>> ELSE <<Op("clients", "select")>>
      loop == GenerateLoop(ids, svc, Len(ids))
  IN
  IF Len(ids) = 0
  THEN [success |-> FALSE, entries |-> <<>>, totalEntries |-> 0, clientIds |-> <<>>,
        error |-> "No clients found", aiProvider |-> Absent,
        aiCalls |-> <<>>, ops |-> listOps]
  ELSE IF loop.threw
  THEN [success |-> FALSE, entries |-> <<>>, totalEntries |-> 0, clientIds |-> <<>>,
        error |-> "AI API key not configured", aiProvider |-> Absent,
        aiCalls |-> loop.aiCalls, ops |-> listOps \o loop.ops]
  ELSE [success |-> TRUE, entries |-> loop.entries, totalEntries |-> Len(loop.entries),
        clientIds |-> ids, error |-> Absent, aiProvider |-> svc.aiProvider,
        aiCalls |-> loop.aiCalls, ops |-> listOps \o loop.ops]

\* saveGeneratedCalendar: one calendar_entries insert per entry.
SaveOps(entries) == [i \in 1..Len(entries) |-> Op("calendar_entries", "insert")]

CanGenerateAnyRole(row) == row.exists

\* Only IT_ADMIN and AGENCY_ADMIN can generate calendars.
CanGenerate(row) == row.role \in {"IT_ADMIN", "AGENCY_ADMIN"}

GenerationRow(id, body, uid) ==
  [id |-> id, client_id |-> body.clientId, generated_by |-> uid,
   ai_provider |-> IF body.aiProvider # Absent THEN body.aiProvider ELSE "openai",
   status |-> "generating", entries_generated |-> 0, result_provider |-> Absent]

\* The checks that precede the insert of the generation record: the
\* refusal, or "pass".
\* req: [cred, body, dbError, updateError];
\* body: Malformed or [clientId, startDate, endDate, aiProvider]
CalendarGeneratePOSTChecks(req) ==
  LET auth == Authenticate(req.cred) IN
  IF ~auth.ok THEN Resp(UNAUTHORIZED, "Unauthorized", NoBody, <<>>)
  ELSE IF ~CanGenerate(UsersSingle(auth.user))
  THEN Resp(UNAUTHORIZED, "Only IT Admin and Agency Admin can generate calendars", NoBody,
            <<UsersSelectOp>>)
  ELSE IF req.body = Malformed
  THEN Resp(SERVER_ERROR, "Internal server error", NoBody, <<UsersSelectOp>>)
  ELSE IF req.body.startDate = Absent \/ req.body.endDate = Absent
  THEN Resp(BAD_REQUEST, "Start date and end date are required", NoBody, <<UsersSelectOp>>)
  ELSE Resp("pass", "", NoBody, <<UsersSelectOp, Op("ai_calendar_generations", "insert")>>)

\* The generation the handler runs once the record is inserted.
CalendarGenerateResult(req) ==
  GenerateCalendar(req.body.clientId, Initialize(req.body.aiProvider, env))

CalendarGeneratePOSTRun(req) ==
  LET checks == CalendarGeneratePOSTChecks(req) IN
  IF checks.status # "pass" THEN checks
  ELSE IF req.dbError
  THEN Resp(SERVER_ERROR, "Failed to create generation record", NoBody, checks.ops)
  ELSE LET result == CalendarGenerateResult(req) IN
       Resp(OK, "",
            [success |-> result.success, entries |-> result.entries,
             totalEntries |-> result.totalEntries, clientIds |-> result.clientIds,
             error |-> result.error],
            checks.ops \o result.ops
              \o (IF result.success THEN SaveOps(result.entries) ELSE <<>>)
              \o <<Op("ai_calendar_generations", "update")>>)

CalendarGeneratePOST(req) ==
  LET r == CalendarGeneratePOSTRun(req)
      ran == r.status = OK
      result == CalendarGenerateResult(req)
      id == Len(ai_calendar_generations) + 1
      inserted == GenerationRow(id, req.body, Authenticate(req.cred).user)
      updated == [inserted EXCEPT
                    !.status = IF result.success THEN "completed" ELSE "failed",
                    !.entries_generated = result.totalEntries,
                    !.result_provider = result.aiProvider]
  IN
  /\ last = Idle
  /\ ai_calendar_generations' =
        IF ran THEN Append(ai_calendar_generations,
                           IF req.updateError THEN inserted ELSE updated)
        ELSE ai_calendar_generations
  /\ Len(ai_calendar_generations') <= MaxRows
  /\ service' = IF ran THEN Initialize(req.body.aiProvider, env) ELSE service
  /\ calendar_entries' =
        IF ran /\ result.success
        THEN calendar_entries \o
             [i \in 1..Len(result.entries) |->
                [id |-> "generated", client |-> result.entries[i].clientId,
                 platform |-> Absent, integration_status |-> {}]]
        ELSE calendar_entries
  /\ last' = Answer("CalendarGeneratePOST", req, r,
                    IF ran THEN [ran |-> TRUE, aiCalls |-> result.aiCalls]
                    ELSE [ran |-> FALSE, aiCalls |-> <<>>])
  /\ UNCHANGED <<concurrent, users, clients, monthly_analytics, storage, integration_configs,
                 integration_posts, post_uploads, campaign_uploads,
                 campaign_upload_comments, artwork_uploads, artwork_upload_comments,
                 notification_templates, notification_rules, manager, env>>

(***************************************************************************)
(* IntegrationManager, POST /api/integrations/post and the approval hook   *)
(***************************************************************************)
EntryIds == {"e1", "e2", "e3"}
EntryIdValues == EntryIds \cup {"e9"}

\* e1 has one approved upload, e2 none, e3 two.
InitCalendarEntries ==
  << [id |-> "e1", client |-> "c1", platform |-> Absent, integration_status |-> {}],
     [id |-> "e2", client |-> "c1", platform |-> "twitter", integration_status |-> {}],
     [id |-> "e3", client |-> "c2", platform |-> Absent, integration_status |-> {}] >>

InitPostUploads ==
  << [entry_id |-> "e1", approved |-> FALSE], [entry_id |-> "e1", approved |-> TRUE],
     [entry_id |-> "e2", approved |-> FALSE],
     [entry_id |-> "e3", approved |-> TRUE], [entry_id |-> "e3", approved |-> TRUE] >>

PlatformValues == {"facebook", "FACEBOOK", "twitter", "myspace"}

\* platform.toUpperCase()
Upper(p) == CASE p = "facebook" -> "FACEBOOK"
              [] p = "twitter" -> "TWITTER"
              [] p = "myspace" -> "MYSPACE"
              [] OTHER -> p

\* createIntegrationService: a service for the four known types, else null.
CreateIntegrationService(config) ==
  config.type \in {"FACEBOOK", "INSTAGRAM", "TWITTER", "LINKEDIN"}

\* initialize() of the provider: Facebook and Instagram read
\* credentials.accessToken, which throws on null credentials.
InitializeThrows(config) ==
  config.type \in {"FACEBOOK", "INSTAGRAM"} /\ config.credentials = "null"

\* initializeAll without the test of this.initialized.
InitializeAllEveryCall(mgr, configs, loadError) ==
  IF loadError
  THEN [mgr |-> mgr, ops |-> <<Op("integration_configs", "select")>>]
  ELSE [mgr |-> [initialized |-> TRUE,
                 integrations |-> mgr.integrations \o
                    SelectSeq(configs, LAMBDA c : c.enabled /\ CreateIntegrationService(c)
                                                  /\ ~InitializeThrows(c))],
        ops |-> <<Op("integration_configs", "select")>>]

\* initializeAll: nothing when initialized or when the load fails; else
\* the services of the enabled configurations.
InitializeAll(mgr, configs, loadError) ==
  IF mgr.initialized THEN [mgr |-> mgr, ops |-> <<>>]
  ELSE IF loadError
  THEN [mgr |-> mgr, ops |-> <<Op("integration_configs", "select")>>]
  ELSE [mgr |-> [initialized |-> TRUE,
                 integrations |-> mgr.integrations \o
                    SelectSeq(configs, LAMBDA c : c.enabled /\ CreateIntegrationService(c)
                                                  /\ ~InitializeThrows(c))],
        ops |-> <<Op("integration_configs", "select")>>]

\* postToIntegrations: the services postContent is called on.
RelevantIntegrations(mgr, platform) ==
  SelectSeq(mgr.integrations, LAMBDA c : c.type = Upper(platform) /\ c.enabled)

\* postContent of every provider answers success.
PostToIntegrations(mgr, platform) ==
  LET rel == RelevantIntegrations(mgr, platform) IN
  [results |-> [i \in 1..Len(rel) |-> [success |-> TRUE, via |-> rel[i].id]],
   ops |-> [i \in 1..Len(rel) |-> Op("provider", "post")]]

EntrySingle(entries, postId) ==
  SelectSeq(entries, LAMBDA e : e.id = postId)

ApprovedUploadAny(uploads, postId) ==
  Len(SelectSeq(uploads, LAMBDA u : u.entry_id = postId)) = 1

\* .from('post_uploads').eq('entry_id', postId).eq('approved', true).single()
\* gives a row when exactly one matches.
ApprovedUpload(uploads, postId) ==
  Len(SelectSeq(uploads, LAMBDA u : u.entry_id = postId /\ u.approved)) = 1

IntegrationPostRow(integration_id, post_id, campaign_upload_id, result) ==
  [integration_id |-> integration_id, post_id |-> post_id,
   campaign_upload_id |-> campaign_upload_id,
   status |-> IF result.success THEN "posted" ELSE "failed",
   posted_at |-> IF result.success THEN "now" ELSE "null"]

\* The status object the handler stores: the platform key holds the last
\* result.
IntegrationStatus(platform, results) ==
  IF Len(results) = 0 THEN {}
  ELSE {[platform |-> platform, posted |-> results[Len(results)].success]}

SetIntegrationStatus(entries, postId, status) ==
  [i \in 1..Len(entries) |->
     IF entries[i].id = postId THEN [entries[i] EXCEPT !.integration_status = status]
     ELSE entries[i]]

\* The checks that precede initializeAll: the refusal, or "pass".
\* req: [cred, body, loadError]; body: Malformed or
\* [postId, campaignUploadId, platform, integrationIds]
IntegrationsPostPOSTChecks(req) ==
  LET auth == Authenticate(req.cred)
      b == req.body
  IN
  IF ~auth.ok THEN Resp(UNAUTHORIZED, "Unauthorized", NoBody, <<>>)
  ELSE IF b = Malformed THEN Resp(SERVER_ERROR, "Internal server error", NoBody, <<>>)
  ELSE IF b.postId = Absent /\ b.campaignUploadId = Absent
  THEN Resp(BAD_REQUEST, "Either postId or campaignUploadId is required", NoBody, <<>>)
  ELSE IF b.platform = Absent THEN Resp(BAD_REQUEST, "Platform is required", NoBody, <<>>)
  ELSE IF b.postId # Absent
  THEN IF Len(EntrySingle(calendar_entries, b.postId)) # 1
       THEN Resp(NOT_FOUND, "Post not found", NoBody, <<Op("calendar_entries", "select")>>)
       ELSE IF ~ApprovedUpload(post_uploads, b.postId)
       THEN Resp(BAD_REQUEST, "Post must be approved before posting to integrations", NoBody,
                 <<Op("calendar_entries", "select"), Op("post_uploads", "select")>>)
       ELSE Resp("pass", "", NoBody,
                 <<Op("calendar_entries", "select"), Op("post_uploads", "select")>>)
  ELSE IF b.campaignUploadId \notin CampaignUploadIds
  THEN Resp(NOT_FOUND, "Campaign upload not found", NoBody, <<Op("campaign_uploads", "select")>>)
  ELSE IF ~campaign_uploads[b.campaignUploadId].approved
  THEN Resp(BAD_REQUEST, "Campaign upload must be approved before posting", NoBody,
            <<Op("campaign_uploads", "select")>>)
  ELSE Resp("pass", "", NoBody, <<Op("campaign_uploads", "select")>>)

\* A body without integrationIds.
NoIds == [kind |-> "absent", items |-> <<>>]

\* The null integration_id: no integration_configs row has it.
NullId == 0

\* integrationIds?.[index] || null
IntegrationIdAt(integrationIds, index) ==
  IF integrationIds.kind = "absent" THEN NullId
  ELSE IF index <= Len(integrationIds.items) THEN integrationIds.items[index] ELSE NullId

\* integration_posts.integration_id is NOT NULL REFERENCES
\* integration_configs(id): the insert of the rows is refused as a whole
\* when one of them names no configuration.  The handlers do not read the
\* error of the insert.
InsertIntegrationPosts(table, rows, configs) ==
  IF \A i \in 1..Len(rows) :
        \E j \in 1..Len(configs) : configs[j].id = rows[i].integration_id
  THEN table \o rows
  ELSE table

\* What POST /api/integrations/post does once its checks pass.
IntegrationsPostPOSTWork(req) ==
  LET b == req.body
      init == InitializeAll(manager, integration_configs, req.loadError)
      posted == PostToIntegrations(init.mgr, b.platform)
      rows == [i \in 1..Len(posted.results) |->
                 IntegrationPostRow(IntegrationIdAt(b.integrationIds, i), b.postId,
                                    b.campaignUploadId, posted.results[i])]
  IN [mgr |-> init.mgr, results |-> posted.results, rows |-> rows,
      status |-> IntegrationStatus(b.platform, posted.results),
      ops |-> init.ops \o posted.ops
              \o (IF Len(rows) > 0 THEN <<Op("integration_posts", "insert")>> ELSE <<>>)
              \o (IF b.postId # Absent THEN <<Op("calendar_entries", "update")>> ELSE <<>>)]

IntegrationsPostPOSTRun(req) ==
  LET checks == IntegrationsPostPOSTChecks(req) IN
  IF checks.status # "pass" THEN checks
  ELSE LET w == IntegrationsPostPOSTWork(req) IN
       Resp(OK, "", [success |-> Len(w.results) > 0, posted |-> Len(w.results), failed |-> 0],
            checks.ops \o w.ops)

IntegrationsPostPOST(req) ==
  LET r == IntegrationsPostPOSTRun(req)
      ran == r.status = OK
      w == IntegrationsPostPOSTWork(req)
  IN
  /\ last = Idle
  /\ manager' = IF ran THEN w.mgr ELSE manager
  /\ integration_posts' =
        IF ran THEN InsertIntegrationPosts(integration_posts, w.rows, integration_configs)
        ELSE integration_posts
  /\ Len(integration_posts') <= MaxRows
  /\ calendar_entries' =
        IF ran /\ req.body.postId # Absent
        THEN SetIntegrationStatus(calendar_entries, req.body.postId, w.status)
        ELSE calendar_entries
  /\ last' = Answer("IntegrationsPostPOST", req, r,
                    [ran |-> ran, posts |-> IF ran THEN Len(w.results) ELSE 0,
                     results |-> IF ran THEN w.results ELSE <<>>])
  /\ UNCHANGED <<concurrent, users, clients, monthly_analytics, storage, integration_configs,
                 post_uploads, campaign_uploads, campaign_upload_comments, artwork_uploads,
                 artwork_upload_comments, notification_templates, notification_rules,
                 ai_calendar_generations, service, env>>

\* isAutoPostEnabled(platform): an enabled configuration of the type whose
\* settings hold autoPostOnApproval: true.
IsAutoPostEnabled(configs, platform) ==
  \E i \in 1..Len(configs) :
     /\ configs[i].enabled
     /\ configs[i].type = Upper(platform)
     /\ configs[i].settings = "autoPostOnApproval"

\* platform || entry.platform || 'FACEBOOK'
TargetPlatform(platform, entry) ==
  IF platform # Absent THEN platform
  ELSE IF entry.platform # Absent THEN entry.platform ELSE "FACEBOOK"

\* postToIntegrationsOnApproval(postId, platform): the calls it makes and
\* what it writes.  arg: [postId, platform, loadError]
PostToIntegrationsOnApprovalRun(arg) ==
  LET init == InitializeAll(manager, integration_configs, arg.loadError)
      found == EntrySingle(calendar_entries, arg.postId)
      ops1 == Append(init.ops, Op("calendar_entries", "select"))
      ops2 == Append(ops1, Op("post_uploads", "select"))
      ops3 == Append(ops2, Op("integration_configs", "select"))
      none == [mgr |-> init.mgr, results |-> <<>>, rows |-> <<>>, status |-> {},
               wrote |-> FALSE, ops |-> ops1]
  IN
  IF Len(found) # 1 THEN none
  ELSE IF ~ApprovedUpload(post_uploads, arg.postId) THEN [none EXCEPT !.ops = ops2]
  ELSE LET target == TargetPlatform(arg.platform, found[1]) IN
       IF ~IsAutoPostEnabled(integration_configs, target) THEN [none EXCEPT !.ops = ops3]
       ELSE LET posted == PostToIntegrations(init.mgr, target) IN
            [mgr |-> init.mgr, results |-> posted.results,
             rows |-> [i \in 1..Len(posted.results) |->
                         IntegrationPostRow(NullId, arg.postId, Absent, posted.results[i])],
             status |-> IntegrationStatus(target, posted.results),
             wrote |-> Len(posted.results) > 0,
             ops |-> ops3 \o posted.ops
                     \o (IF Len(posted.results) > 0
                         THEN <<Op("integration_posts", "insert"),
                                Op("calendar_entries", "update")>>
                         ELSE <<>>)]

PostToIntegrationsOnApproval(arg) ==
  LET w == PostToIntegrationsOnApprovalRun(arg) IN
  /\ last = Idle
  /\ manager' = w.mgr
  /\ integration_posts' = InsertIntegrationPosts(integration_posts, w.rows, integration_configs)
  /\ Len(integration_posts') <= MaxRows
  /\ calendar_entries' =
        IF w.wrote THEN SetIntegrationStatus(calendar_entries, arg.postId, w.status)
        ELSE calendar_entries
  /\ last' = [handler |-> "PostToIntegrationsOnApproval", cred |-> Header("none", "-"),
              req |-> [body |-> [postId |-> arg.postId, campaignUploadId |-> Absent,
                                 platform |-> arg.platform, integrationIds |-> NoIds],
                       loadError |-> arg.loadError],
              status |-> "void", msg |-> "", data |-> NoBody, ops |-> w.ops,
              ext |-> [ran |-> Len(w.results) > 0, posts |-> Len(w.results),
                       results |-> w.results]]
  /\ UNCHANGED <<concurrent, users, clients, monthly_analytics, storage, integration_configs,
                 post_uploads, campaign_uploads, campaign_upload_comments, artwork_uploads,
                 artwork_upload_comments, notification_templates, notification_rules,
                 ai_calendar_generations, service, env>>

\* reload(): the registry is emptied, initialized is reset and initializeAll
\* runs.
Reload(loadError) ==
  LET init == InitializeAll([initialized |-> FALSE, integrations |-> <<>>],
                            integration_configs, loadError)
  IN
  /\ last = Idle
  /\ manager' = init.mgr
  /\ last' = [handler |-> "Reload", cred |-> Header("none", "-"),
              req |-> [loadError |-> loadError], status |-> "void", msg |-> "",
              data |-> NoBody, ops |-> init.ops, ext |-> NoBody]
  /\ UNCHANGED <<concurrent, users, clients, monthly_analytics, storage, integration_configs,
                 integration_posts, calendar_entries, post_uploads, campaign_uploads,
                 campaign_upload_comments, artwork_uploads, artwork_upload_comments,
                 notification_templates, notification_rules, ai_calendar_generations,
                 service, env, nreq>>

\* The soft deletion of an integration: deleted_at of its row is set,
\* through the database client.
IntegrationConfigSoftDelete(id) ==
  /\ last = Idle
  /\ \E i \in 1..Len(integration_configs) :
        /\ integration_configs[i].id = id
        /\ ~integration_configs[i].deleted_at
        /\ integration_configs' = [integration_configs EXCEPT ![i].deleted_at = TRUE]
  /\ UNCHANGED <<concurrent, users, clients, monthly_analytics, storage,
                 integration_posts, calendar_entries, post_uploads, campaign_uploads,
                 campaign_upload_comments, artwork_uploads, artwork_upload_comments,
                 notification_templates, notification_rules, ai_calendar_generations,
                 manager, service, env, nreq, last>>

(***************************************************************************)
(* The requests the handlers are called with.  A database fault is drawn   *)
(* with one well-formed request per caller, the other inputs without it.   *)
(***************************************************************************)
IntegrationsGETRequests == [cred : Credentials, dbError : BOOLEAN]

BaseConfigBody ==
  [name |-> "n", type |-> "FACEBOOK", credentials |-> "secretA",
   settings |-> "autoPostOnApproval", enabled |-> Absent]

ConfigBodies ==
  {Malformed}
  \cup [name : {"n"}, type : {"FACEBOOK", "TWITTER", "CUSTOM"}, credentials : {"secretA"},
        settings : {Absent, "autoPostOnApproval"}, enabled : {Absent, "false"}]
  \cup [name : {"n"}, type : {"FACEBOOK"}, credentials : {Absent, "null", "secretB"},
        settings : {"autoPostOnApproval"}, enabled : {Absent}]
  \cup [name : {Absent}, type : {"FACEBOOK"}, credentials : {"secretA"},
        settings : {Absent}, enabled : {Absent}]
  \cup [name : {"n"}, type : {Absent, "BOGUS"}, credentials : {"secretA"},
        settings : {Absent}, enabled : {Absent}]

IntegrationsPOSTRequests ==
  [cred : Credentials, body : ConfigBodies, dbError : {FALSE}]
  \cup [cred : Credentials, body : {BaseConfigBody}, dbError : {TRUE}]

NotificationsGETRequests ==
  [cred : Credentials, type : {Absent, "stats", "templates", "rules"}, dbError : BOOLEAN]

ItemBodies ==
  {Malformed} \cup [action : {"template", "rule", Absent}, id : {0, 1}, data : {Absent, "x", "y"}]

NotificationsPOSTRequests ==
  [cred : Credentials, body : ItemBodies, dbError : {FALSE}]
  \cup [cred : Credentials, body : [action : {"template", "rule"}, id : {0}, data : {"x"}],
        dbError : {TRUE}]

NotificationsPUTRequests ==
  [cred : Credentials, body : ItemBodies, dbError : {FALSE}]
  \cup [cred : Credentials, body : [action : {"template", "rule"}, id : {1}, data : {"y"}],
        dbError : {TRUE}]

ArtworkUploadsPUTRequests ==
  [cred : Credentials, id : ArtworkUploadIdValues,
   body : {Malformed} \cup [approved : {"true", "false", Absent, "yes"},
                            comment : {Absent, "blank", "text"}],
   dbError : {FALSE}, commentError : {FALSE}]
  \cup [cred : Credentials, id : {"a1"}, body : {[approved |-> "true", comment |-> "text"]},
        dbError : {TRUE}, commentError : {FALSE}]
  \cup [cred : Credentials, id : {"a1"}, body : {[approved |-> "true", comment |-> "text"]},
        dbError : {FALSE}, commentError : {TRUE}]

ArtworkCommentsPOSTRequests ==
  [cred : Credentials, id : ArtworkUploadIdValues,
   body : {Malformed} \cup [commentText : {Absent, "blank", "text"},
                            commentType : {Absent, "approval"}],
   dbError : {FALSE}]
  \cup [cred : Credentials, id : {"a1"},
        body : {[commentText |-> "text", commentType |-> Absent]}, dbError : {TRUE}]

CampaignCommentsPOSTRequests ==
  [cred : Credentials, id : CampaignUploadIdValues,
   body : {Malformed} \cup [commentText : {Absent, "blank", "text"}],
   dbError : {FALSE}]
  \cup [cred : Credentials, id : {"cu1"}, body : {[commentText |-> NonString]}, dbError : {FALSE}]
  \cup [cred : Credentials, id : {"cu1"}, body : {[commentText |-> "text"]}, dbError : {TRUE}]

LimitValues == {LimitAbsent, LimitText, LimitInt(0), LimitInt(1), LimitInt(600), LimitInt(-1)}

MonthlyAnalyticsGETRequests ==
  [cred : Credentials, clientId : {Absent, "c1", "c2", "c3"},
   month : {Absent, MonthDate("2025-01")}, limit : LimitValues, dbError : {FALSE}]
  \cup [cred : Credentials, clientId : {Absent}, month : {Absent},
        limit : {LimitAbsent, LimitInt(-1)}, dbError : {TRUE}]

\* The first n names of FileNames, each with the outcome of its upload.
FileLists ==
  UNION {[files : {SubSeq(FileNames, 1, n)}, outcomes : [1..n -> UploadOutcomes]] :
           n \in 0..MaxFiles}

OneFile == [files |-> <<"f1">>, outcomes |-> <<"ok">>]

NoFile == [files |-> <<>>, outcomes |-> <<>>]

\* Every form with no file or one good file, and for one client and month
\* every list of files, with and without a failing insert.
AnalyticsForms ==
  [clientId : ClientIdValues \cup {Absent}, month : Months \cup {Absent},
   file : {NoFile, OneFile}, dbError : {FALSE}, removeError : {FALSE}]
  \cup [clientId : {"c1"}, month : {"2025-01"}, file : FileLists,
        dbError : {FALSE}, removeError : {FALSE}]
  \cup [clientId : {"c1"}, month : {"2025-01"}, file : FileLists,
        dbError : {TRUE}, removeError : BOOLEAN]

MonthlyAnalyticsPOSTRequests ==
  {[cred |-> c, clientId |-> f.clientId, month |-> f.month, files |-> f.file.files,
    outcomes |-> f.file.outcomes, dbError |-> f.dbError, removeError |-> f.removeError] :
     c \in Credentials, f \in AnalyticsForms}

GenerateBodies ==
  {Malformed}
  \cup [clientId : ClientIdValues \cup {Absent}, startDate : {Absent, "2025-01-01"},
        endDate : {Absent, "2025-01-31"}, aiProvider : {Absent}]
  \cup [clientId : {Absent}, startDate : {"2025-01-01"}, endDate : {"2025-01-31"},
        aiProvider : {"anthropic"}]

BaseGenerateBody ==
  [clientId |-> "c1", startDate |-> "2025-01-01", endDate |-> "2025-01-31",
   aiProvider |-> Absent]

CalendarGeneratePOSTRequests ==
  [cred : Credentials, body : GenerateBodies, dbError : {FALSE}, updateError : {FALSE}]
  \cup [cred : Credentials, body : {BaseGenerateBody}, dbError : {TRUE}, updateError : {FALSE}]
  \cup [cred : Credentials, body : {BaseGenerateBody}, dbError : {FALSE}, updateError : {TRUE}]

\* A calendar entry, a campaign upload, neither, or both.
PostTargets ==
  [postId : EntryIdValues \cup {Absent}, campaignUploadId : {Absent}]
  \cup [postId : {Absent}, campaignUploadId : CampaignUploadIdValues]
  \cup {[postId |-> "e2", campaignUploadId |-> "cu2"],
        [postId |-> "e1", campaignUploadId |-> "cu1"]}

PostBodies ==
  {Malformed}
  \cup {[postId |-> t.postId, campaignUploadId |-> t.campaignUploadId, platform |-> pf,
         integrationIds |-> ids] :
          t \in PostTargets, pf \in PlatformValues \cup {Absent}, ids \in {NoIds}}
  \cup {[postId |-> t.postId, campaignUploadId |-> t.campaignUploadId, platform |-> "facebook",
         integrationIds |-> Arr(<<1>>)] : t \in PostTargets}

IntegrationsPostPOSTRequests ==
  [cred : Credentials, body : PostBodies, loadError : {FALSE}]
  \cup [cred : Credentials,
        body : {[postId |-> "e1", campaignUploadId |-> Absent, platform |-> "facebook",
                 integrationIds |-> NoIds]},
        loadError : {TRUE}]

ApprovalArgs ==
  [postId : EntryIdValues, platform : PlatformValues \cup {Absent}, loadError : {FALSE}]
  \cup [postId : {"e1"}, platform : {Absent}, loadError : {TRUE}]

\* The requests of the posting subsystem on a configured deployment: one
\* IT admin, the entry with one approved upload, two platforms.
MaxConfigs == 2

ManagerConfigBodies ==
  [name : {"n"}, type : {"FACEBOOK", "TWITTER"}, credentials : {"secretA"},
   settings : {Absent, "autoPostOnApproval"}, enabled : {Absent}]

RECURSIVE ConfiguredTables(_)
\* The integration_configs tables of at most n rows that POST
\* /api/integrations has built.
ConfiguredTables(n) ==
  IF n = 0 THEN {<<>>}
  ELSE LET shorter == ConfiguredTables(n - 1) IN
       shorter \cup {Append(t, NewConfigRow(b, Len(t) + 1, "u_it")) :
                        t \in {u \in shorter : Len(u) = n - 1}, b \in ManagerConfigBodies}

ManagerPostRequests ==
  [cred : {Header("Bearer", "u_it")},
   body : [postId : {"e1"}, campaignUploadId : {Absent}, platform : {"facebook", "twitter"},
           integrationIds : {NoIds, Arr(<<1>>), Arr(<<2>>)}],
   loadError : BOOLEAN]

ManagerApprovalArgs ==
  [postId : {"e1"}, platform : {"facebook", "twitter", Absent}, loadError : BOOLEAN]

(***************************************************************************)
(* Requests served interleaved.  The runtime serves a request until it     *)
(* awaits, and meanwhile serves the others: a handler is cut here at the   *)
(* awaits between which another request can change what it reads.          *)
(***************************************************************************)
Slots == 1..MaxConcurrent

NoRequest ==
  [handler |-> "none", pc |-> "idle", req |-> NoBody, local |-> NoBody, response |-> NoBody]

\* The generate requests that pass the checks, from two administrators.
ConcurrentGenerateRequests ==
  {req \in [cred : {Header("Bearer", "u_it"), Header("Bearer", "u_ag1")},
            body : GenerateBodies \ {Malformed}, dbError : {FALSE}, updateError : {FALSE}] :
     req.body.startDate # Absent /\ req.body.endDate # Absent}

\* POST /api/ai/calendar/generate up to the insert of the generation record.
GenerateAccept(p, req) ==
  LET id == Len(ai_calendar_generations) + 1 IN
  /\ inflight[p] = NoRequest
  /\ CalendarGeneratePOSTChecks(req).status = "pass"
  /\ ai_calendar_generations' =
        Append(ai_calendar_generations,
               GenerationRow(id, req.body, Authenticate(req.cred).user))
  /\ inflight' = [inflight EXCEPT ![p] =
                    [handler |-> "CalendarGeneratePOST", pc |-> "initialize", req |-> req,
                     local |-> [generationId |-> id], response |-> NoBody]]
  /\ UNCHANGED <<browser, users, clients, monthly_analytics, storage, integration_configs,
                 integration_posts, calendar_entries, post_uploads, campaign_uploads,
                 campaign_upload_comments, artwork_uploads, artwork_upload_comments,
                 notification_templates, notification_rules, manager, service, env,
                 nreq, last>>

\* await calendarGenerationService.initialize(aiProvider), and the call of
\* generateCalendar up to its awaited database reads.
GenerateInitialize(p) ==
  /\ inflight[p].handler = "CalendarGeneratePOST"
  /\ inflight[p].pc = "initialize"
  /\ service' = Initialize(inflight[p].req.body.aiProvider, env)
  /\ inflight' = [inflight EXCEPT ![p].pc = "generate"]
  /\ UNCHANGED <<browser, users, clients, monthly_analytics, storage, integration_configs,
                 integration_posts, calendar_entries, post_uploads, campaign_uploads,
                 campaign_upload_comments, artwork_uploads, artwork_upload_comments,
                 notification_templates, notification_rules, ai_calendar_generations,
                 manager, env, nreq, last>>

\* generateCalendar from its last awaited read on (callAI and the returned
\* metadata read the singleton's fields as they are now), then the update of
\* the generation record and the response.
GenerateComplete(p) ==
  LET req == inflight[p].req
      id == inflight[p].local.generationId
      result == GenerateCalendar(req.body.clientId, service)
  IN
  /\ inflight[p].handler = "CalendarGeneratePOST"
  /\ inflight[p].pc = "generate"
  /\ ai_calendar_generations' =
        [ai_calendar_generations EXCEPT
           ![id].status = IF result.success THEN "completed" ELSE "failed",
           ![id].entries_generated = result.totalEntries,
           ![id].result_provider = result.aiProvider]
  /\ calendar_entries' =
        IF result.success
        THEN calendar_entries \o
             [i \in 1..Len(result.entries) |->
                [id |-> "generated", client |-> result.entries[i].clientId,
                 platform |-> Absent, integration_status |-> {}]]
        ELSE calendar_entries
  /\ inflight' = [inflight EXCEPT
                    ![p].pc = "done",
                    ![p].response =
                       Resp(OK, "",
                            [success |-> result.success, entries |-> result.entries,
                             totalEntries |-> result.totalEntries,
                             clientIds |-> result.clientIds, error |-> result.error],
                            <<>>)]
  /\ UNCHANGED <<browser, users, clients, monthly_analytics, storage, integration_configs,
                 integration_posts, post_uploads, campaign_uploads,
                 campaign_upload_comments, artwork_uploads, artwork_upload_comments,
                 notification_templates, notification_rules, manager, service, env,
                 nreq, last>>

\* The comment requests served interleaved: an administrator, the creator
\* of the campaigns and a client without access.
ConcurrentCommentRequests ==
  [cred : {Header("Bearer", "u_it"), Header("Bearer", "u_de"), Header("Bearer", "u_cl0")},
   id : CampaignUploadIdValues, body : {[commentText |-> "text"]}, dbError : {FALSE}]

\* POST /api/campaign-uploads/{id}/comments up to the approved check: the
\* handler answers here, or goes on to await the caller's users row.
CommentCheck(p, req) ==
  LET r == CampaignCommentsPOSTRun(req)
      passed == /\ Authenticate(req.cred).ok
                /\ BodyThrows(req.body) = "none"
                /\ HasText(req.body.commentText)
                /\ req.id \in CampaignUploadIds
                /\ ~campaign_uploads[req.id].approved
  IN
  /\ inflight[p] = NoRequest
  /\ inflight' = [inflight EXCEPT ![p] =
                    IF passed
                    THEN [handler |-> "CampaignCommentsPOST", pc |-> "checked", req |-> req,
                          local |-> [campaign |-> campaign_uploads[req.id].campaign],
                          response |-> NoBody]
                    ELSE [handler |-> "CampaignCommentsPOST", pc |-> "done", req |-> req,
                          local |-> NoBody, response |-> r]]
  /\ UNCHANGED <<browser, users, clients, monthly_analytics, storage, integration_configs,
                 integration_posts, calendar_entries, post_uploads, campaign_uploads,
                 campaign_upload_comments, artwork_uploads, artwork_upload_comments,
                 notification_templates, notification_rules, ai_calendar_generations,
                 manager, service, env, nreq, last>>

\* The rest of the handler: the caller's users row, the access check on the
\* campaign read before, and the insert.
CommentInsert(p) ==
  LET req == inflight[p].req
      uid == Authenticate(req.cred).user
      row == UsersSingle(uid)
      ops1 == <<Op("campaign_uploads", "select"), UsersSelectOp>>
      ops2 == Append(ops1, Op("campaign_upload_comments", "insert"))
      r == IF ~row.exists
           THEN Resp(UNAUTHORIZED, "User not found", NoBody, ops1)
           ELSE IF ~HasCommentAccess(row, inflight[p].local.campaign, uid)
           THEN Resp(UNAUTHORIZED, "You do not have access to comment on this upload",
                     NoBody, ops1)
           ELSE IF req.dbError
           THEN Resp(SERVER_ERROR, "Failed to add comment", NoBody, ops2)
           ELSE Resp(OK, "",
                     [campaign_upload_id |-> req.id, user_id |-> uid,
                      comment_type |-> "feedback"], ops2)
  IN
  /\ inflight[p].handler = "CampaignCommentsPOST"
  /\ inflight[p].pc = "checked"
  /\ campaign_upload_comments' =
        IF r.status = OK THEN Append(campaign_upload_comments, r.data)
        ELSE campaign_upload_comments
  /\ inflight' = [inflight EXCEPT ![p].pc = "done", ![p].response = r]
  /\ UNCHANGED <<browser, users, clients, monthly_analytics, storage, integration_configs,
                 integration_posts, calendar_entries, post_uploads, campaign_uploads,
                 artwork_uploads, artwork_upload_comments, notification_templates,
                 notification_rules, ai_calendar_generations, manager, service, env,
                 nreq, last>>

\* The approval of a campaign upload (its approved boolean is set), by the
\* approval workflow.
CampaignUploadApprove(id) ==
  /\ ~campaign_uploads[id].approved
  /\ campaign_uploads' = [campaign_uploads EXCEPT ![id].approved = TRUE]
  /\ UNCHANGED <<concurrent, users, clients, monthly_analytics, storage,
                 integration_configs, integration_posts, calendar_entries, post_uploads,
                 campaign_upload_comments, artwork_uploads, artwork_upload_comments,
                 notification_templates, notification_rules, ai_calendar_generations,
                 manager, service, env, nreq, last>>

(***************************************************************************)
(* ApiClient.getAuthToken (browser).  The calls run on one event loop: a    *)
(* call runs until it awaits, and the settlement of getSession, the 100 ms  *)
(* lock timer and the 1 s timeout of the race are events of their own.      *)
(***************************************************************************)
Callers == 1..MaxCallers

NoPromise == 0

NoCall == [pc |-> "idle", awaiting |-> NoPromise, token |-> "none"]

\* How a getSession call settles: with a session, with none, or rejected.
Settlements == {"session", "noSession", "rejected"}

LockFreeAlways(promise) == TRUE

\* if (!getSessionPromise)
LockFree(promise) == promise = NoPromise

ClearLockKeeps(promise) == promise

\* getSessionPromise = null, by the timer armed in finally().
ClearLock(promise) == NoPromise

\* The token the localStorage lookup gives.
StoredToken(stored) == IF stored THEN "localStorage" ELSE "null"

\* getAuthToken up to the lock: the token of localStorage if there is one,
\* else the supabase client is loaded.
GetAuthTokenBegin(c, stored) ==
  /\ callers[c].pc = "idle"
  /\ callers' = [callers EXCEPT ![c] =
                   IF stored THEN [pc |-> "done", awaiting |-> NoPromise,
                                   token |-> StoredToken(stored)]
                   ELSE [pc |-> "lock", awaiting |-> NoPromise, token |-> "none"]]
  /\ UNCHANGED <<server, getSessionPromise, sessions, timers>>

\* The lock: a getSession call is started if none is held, and the caller
\* awaits the held call (raced with its 1 s timeout).
GetAuthTokenLock(c) ==
  LET fresh == LockFree(getSessionPromise)
      held == IF fresh THEN Len(sessions) + 1 ELSE getSessionPromise
  IN
  /\ callers[c].pc = "lock"
  /\ fresh => Len(sessions) < MaxSessions
  /\ sessions' = IF fresh THEN Append(sessions, "pending") ELSE sessions
  /\ getSessionPromise' = held
  /\ callers' = [callers EXCEPT ![c].pc = "race", ![c].awaiting = held]
  /\ UNCHANGED <<server, timers>>

\* A getSession call settles; its finally() arms the 100 ms timer.
GetSessionSettles(i, outcome) ==
  /\ i \in 1..Len(sessions)
  /\ sessions[i] = "pending"
  /\ sessions' = [sessions EXCEPT ![i] = outcome]
  /\ timers' = timers \cup {i}
  /\ UNCHANGED <<server, getSessionPromise, callers>>

\* The 100 ms timer fires and clears the lock.
LockTimerFires(i) ==
  /\ i \in timers
  /\ timers' = timers \ {i}
  /\ getSessionPromise' = ClearLock(getSessionPromise)
  /\ UNCHANGED <<server, sessions, callers>>

\* The awaited call has settled: its token, or the localStorage fallback of
\* the catch when it was rejected.
GetAuthTokenRace(c, stored) ==
  LET outcome == sessions[callers[c].awaiting] IN
  /\ callers[c].pc = "race"
  /\ outcome # "pending"
  /\ callers' = [callers EXCEPT
                   ![c].pc = "done",
                   ![c].token = CASE outcome = "session" -> "session"
                                  [] outcome = "noSession" -> "null"
                                  [] OTHER -> StoredToken(stored)]
  /\ UNCHANGED <<server, getSessionPromise, sessions, timers>>

\* The 1 s timeout wins the race: the localStorage fallback.
GetAuthTokenTimeout(c, stored) ==
  /\ callers[c].pc = "race"
  /\ sessions[callers[c].awaiting] = "pending"
  /\ callers' = [callers EXCEPT ![c].pc = "done", ![c].token = StoredToken(stored)]
  /\ UNCHANGED <<server, getSessionPromise, sessions, timers>>

\* The call has returned; the caller can call again.
GetAuthTokenReturn(c) ==
  /\ callers[c].pc = "done"
  /\ callers' = [callers EXCEPT ![c] = NoCall]
  /\ UNCHANGED <<server, getSessionPromise, sessions, timers>>

(***************************************************************************)
(* The system: the tables as deployed, the two singletons as constructed,  *)
(* and the handlers called one request at a time.                          *)
(***************************************************************************)
Environments == [AI_PROVIDER : {Absent}, AI_API_KEY : {Absent, "key"}]

\* The tables as deployed and the two singletons as constructed.
Deployed ==
  /\ users = InitUsers
  /\ clients = InitClients
  /\ monthly_analytics = InitMonthlyAnalytics
  /\ storage = InitStorage
  /\ integration_configs = <<>>
  /\ integration_posts = <<>>
  /\ calendar_entries = InitCalendarEntries
  /\ post_uploads = InitPostUploads
  /\ campaign_uploads = InitCampaignUploads
  /\ campaign_upload_comments = <<>>
  /\ artwork_uploads = InitArtworkUploads
  /\ artwork_upload_comments = <<>>
  /\ notification_templates = <<>>
  /\ notification_rules = <<>>
  /\ ai_calendar_generations = <<>>
  /\ manager = [initialized |-> FALSE, integrations |-> <<>>]
  /\ service = [aiProvider |-> "openai", apiKey |-> NoKey]
  /\ nreq = 0
  /\ last = Idle
  /\ inflight = [p \in Slots |-> NoRequest]
  /\ getSessionPromise = NoPromise
  /\ sessions = <<>>
  /\ timers = {}
  /\ callers = [c \in Callers |-> NoCall]

Init == Deployed /\ env = [AI_PROVIDER |-> Absent, AI_API_KEY |-> "key"]

InitGenerate == Deployed /\ env \in Environments

\* The response has been sent; the next request can be served.
Return ==
  /\ last # Idle
  /\ last' = Idle
  /\ UNCHANGED <<concurrent, users, clients, monthly_analytics, storage, integration_configs,
                 integration_posts, calendar_entries, post_uploads, campaign_uploads,
                 campaign_upload_comments, artwork_uploads, artwork_upload_comments,
                 notification_templates, notification_rules, ai_calendar_generations,
                 manager, service, env, nreq>>

Counted == nreq < MaxRequests /\ nreq' = nreq + 1

Next ==
  \/ Counted /\ \E req \in IntegrationsGETRequests : IntegrationsGET(req)
  \/ Counted /\ \E req \in IntegrationsPOSTRequests : IntegrationsPOST(req)
  \/ Counted /\ \E req \in NotificationsGETRequests : NotificationsGET(req)
  \/ Counted /\ \E req \in NotificationsPOSTRequests : NotificationsPOST(req)
  \/ Counted /\ \E req \in NotificationsPUTRequests : NotificationsPUT(req)
  \/ Counted /\ \E req \in ArtworkUploadsPUTRequests : ArtworkUploadsPUT(req)
  \/ Counted /\ \E req \in ArtworkCommentsPOSTRequests : ArtworkCommentsPOST(req)
  \/ Counted /\ \E req \in CampaignCommentsPOSTRequests : CampaignCommentsPOST(req)
  \/ Counted /\ \E req \in MonthlyAnalyticsGETRequests : MonthlyAnalyticsGET(req)
  \/ Counted /\ \E req \in MonthlyAnalyticsPOSTRequests : MonthlyAnalyticsPOST(req)
  \/ Counted /\ \E req \in CalendarGeneratePOSTRequests : CalendarGeneratePOST(req)
  \/ Counted /\ \E req \in IntegrationsPostPOSTRequests : IntegrationsPostPOST(req)
  \/ Counted /\ \E arg \in ApprovalArgs : PostToIntegrationsOnApproval(arg)
  \/ Return

Spec == Init /\ [][Next]_vars

NextAnalytics ==
  \/ \E req \in MonthlyAnalyticsGETRequests : MonthlyAnalyticsGET(req) /\ UNCHANGED nreq
  \/ \E req \in MonthlyAnalyticsPOSTRequests : MonthlyAnalyticsPOST(req) /\ UNCHANGED nreq
  \/ Return

SpecAnalytics == Init /\ [][NextAnalytics]_vars

NextIntegrations ==
  \/ \E req \in IntegrationsGETRequests : IntegrationsGET(req) /\ UNCHANGED nreq
  \/ \E req \in IntegrationsPOSTRequests : IntegrationsPOST(req) /\ UNCHANGED nreq
  \/ Return

SpecIntegrations == Init /\ [][NextIntegrations]_vars

NextPost ==
  \/ \E req \in IntegrationsPOSTRequests : IntegrationsPOST(req) /\ UNCHANGED nreq
  \/ \E req \in IntegrationsPostPOSTRequests : IntegrationsPostPOST(req) /\ UNCHANGED nreq
  \/ \E arg \in ApprovalArgs : PostToIntegrationsOnApproval(arg) /\ UNCHANGED nreq
  \/ Return

SpecPost == Init /\ [][NextPost]_vars

NextGenerate ==
  \/ \E req \in CalendarGeneratePOSTRequests : CalendarGeneratePOST(req) /\ UNCHANGED nreq
  \/ Return

SpecGenerate == InitGenerate /\ [][NextGenerate]_vars

NextConcurrentGenerate ==
  \/ \E p \in Slots, req \in ConcurrentGenerateRequests : GenerateAccept(p, req)
  \/ \E p \in Slots : GenerateInitialize(p)
  \/ \E p \in Slots : GenerateComplete(p)

SpecConcurrentGenerate == InitGenerate /\ [][NextConcurrentGenerate]_vars

NextConcurrentComments ==
  \/ \E p \in Slots, req \in ConcurrentCommentRequests : CommentCheck(p, req)
  \/ \E p \in Slots : CommentInsert(p)
  \/ \E id \in CampaignUploadIds : CampaignUploadApprove(id)

SpecConcurrentComments == Init /\ [][NextConcurrentComments]_vars

NextApiClient ==
  \/ \E c \in Callers, stored \in BOOLEAN : GetAuthTokenBegin(c, stored)
  \/ \E c \in Callers : GetAuthTokenLock(c)
  \/ \E i \in 1..MaxSessions, outcome \in Settlements : GetSessionSettles(i, outcome)
  \/ \E i \in 1..MaxSessions : LockTimerFires(i)
  \/ \E c \in Callers, stored \in BOOLEAN : GetAuthTokenRace(c, stored)
  \/ \E c \in Callers, stored \in BOOLEAN : GetAuthTokenTimeout(c, stored)
  \/ \E c \in Callers : GetAuthTokenReturn(c)

SpecApiClient == Init /\ [][NextApiClient]_vars

\* The posting subsystem on a deployment whose integrations are configured.
InitManager ==
  /\ users = InitUsers
  /\ clients = InitClients
  /\ monthly_analytics = InitMonthlyAnalytics
  /\ storage = InitStorage
  /\ integration_configs \in ConfiguredTables(MaxConfigs)
  /\ integration_posts = <<>>
  /\ calendar_entries = InitCalendarEntries
  /\ post_uploads = InitPostUploads
  /\ campaign_uploads = InitCampaignUploads
  /\ campaign_upload_comments = <<>>
  /\ artwork_uploads = InitArtworkUploads
  /\ artwork_upload_comments = <<>>
  /\ notification_templates = <<>>
  /\ notification_rules = <<>>
  /\ ai_calendar_generations = <<>>
  /\ manager = [initialized |-> FALSE, integrations |-> <<>>]
  /\ service = [aiProvider |-> "openai", apiKey |-> NoKey]
  /\ env = [AI_PROVIDER |-> Absent, AI_API_KEY |-> "key"]
  /\ nreq = 0
  /\ last = Idle
  /\ inflight = [p \in Slots |-> NoRequest]
  /\ getSessionPromise = NoPromise
  /\ sessions = <<>>
  /\ timers = {}
  /\ callers = [c \in Callers |-> NoCall]

NextManager ==
  \/ \E req \in ManagerPostRequests : IntegrationsPostPOST(req) /\ UNCHANGED nreq
  \/ \E arg \in ManagerApprovalArgs : PostToIntegrationsOnApproval(arg) /\ UNCHANGED nreq
  \/ \E loadError \in BOOLEAN : Reload(loadError)
  \/ \E id \in 1..MaxConfigs : IntegrationConfigSoftDelete(id)
  \/ Return

SpecManager == InitManager /\ [][NextManager]_vars

\* The event loop runs what is ready: an armed timer fires (the 100 ms lock
\* timer, the 1 s timeout of the race) and a call whose await is over goes
\* on.  Nothing makes the browser call getAuthToken, and nothing makes a
\* getSession call settle.
SpecApiClientFair ==
  /\ SpecApiClient
  /\ \A i \in 1..MaxSessions : WF_vars(LockTimerFires(i))
  /\ \A c \in Callers :
       /\ WF_vars(GetAuthTokenLock(c))
       /\ WF_vars(\E stored \in BOOLEAN : GetAuthTokenRace(c, stored))
       /\ WF_vars(\E stored \in BOOLEAN : GetAuthTokenTimeout(c, stored))
       /\ WF_vars(GetAuthTokenReturn(c))

(***************************************************************************)
(* Properties                                                              *)
(***************************************************************************)
ApiHandlers ==
  {"IntegrationsGET", "IntegrationsPOST", "IntegrationsPostPOST", "CalendarGeneratePOST",
   "NotificationsGET", "NotificationsPOST", "NotificationsPUT", "ArtworkUploadsPUT",
   "ArtworkCommentsPOST", "CampaignCommentsPOST", "MonthlyAnalyticsGET",
   "MonthlyAnalyticsPOST"}

\* The database tables and the storage bucket.
stored == <<users, clients, monthly_analytics, storage, integration_configs,
            integration_posts, calendar_entries, post_uploads, campaign_uploads,
            campaign_upload_comments, artwork_uploads, artwork_upload_comments,
            notification_templates, notification_rules, ai_calendar_generations>>

\* The request carries no Authorization header starting with 'Bearer ', or
\* auth.getUser gives an error or no user for its token.
Unauthenticated(cred) ==
  \/ cred.scheme # "Bearer"
  \/ GetUser(cred.token).error
  \/ GetUser(cred.token).user = NoUser

\* C1: every API route handler answers a request that is not authenticated
\* with unauthorized, having made no database or storage call and leaving
\* every table and the bucket as they were.
C1_UnauthenticatedIsRefused ==
  [][(last'.handler \in ApiHandlers /\ Unauthenticated(last'.cred))
       => (last'.status = UNAUTHORIZED /\ last'.ops = <<>> /\ UNCHANGED stored)]_vars

\* C1 witness: a request with a token getUser rejects has been refused
\* after an earlier request was served.
C1_Witness ==
  /\ last.handler = "MonthlyAnalyticsPOST"
  /\ last.cred = Header("Bearer", "t_bad")
  /\ last.status = UNAUTHORIZED
  /\ nreq = MaxRequests

\* C2: in the calls an API route handler has made, a select of the caller's
\* users row precedes every insert, update, storage upload or removal and
\* every third-party post.
C2_RoleFetchedBeforeWrites ==
  last.handler \in ApiHandlers =>
    \A i \in 1..Len(last.ops) :
       IsWrite(last.ops[i]) => \E j \in 1..(i - 1) : last.ops[j] = UsersSelectOp

ManagementHandlers ==
  {"IntegrationsGET", "IntegrationsPOST", "NotificationsGET", "NotificationsPOST",
   "NotificationsPUT"}

\* The request is authenticated and the caller's users row has role IT_ADMIN.
ItAdminCaller(cred) ==
  /\ ~Unauthenticated(cred)
  /\ users[GetUser(cred.token).user].exists
  /\ users[GetUser(cred.token).user].role = "IT_ADMIN"

\* C3: a management endpoint called by anyone but an IT_ADMIN (another role,
\* or no users row) answers unauthorized, makes no call on
\* integration_configs or a notification table, and leaves those tables as
\* they were.
C3_ManagementIsItAdminOnly ==
  [][(last'.handler \in ManagementHandlers /\ ~ItAdminCaller(last'.cred))
       => /\ last'.status = UNAUTHORIZED
          /\ ~Touches(last'.ops, ManagementTables)
          /\ UNCHANGED <<integration_configs, notification_templates,
                         notification_rules>>]_vars

\* C3 witness: an AGENCY_ADMIN's well-formed request to create a template
\* has been refused.
C3_Witness ==
  /\ last.handler = "NotificationsPOST"
  /\ last.cred = Header("Bearer", "u_ag1")
  /\ last.req.body = [action |-> "template", id |-> 0, data |-> "x"]
  /\ ~last.req.dbError
  /\ last.status = UNAUTHORIZED

PostingHandlers == {"IntegrationsPostPOST", "PostToIntegrationsOnApproval"}

\* The content a posting request names is approved: its calendar entry has
\* a post_uploads row with approved = true, or its campaign upload has
\* approved = true.
ContentApproved(body) ==
  /\ body # Malformed
  /\ \/ /\ body.postId # Absent
        /\ \E i \in 1..Len(post_uploads) :
              post_uploads[i].entry_id = body.postId /\ post_uploads[i].approved
     \/ /\ body.campaignUploadId \in CampaignUploadIds
        /\ campaign_uploads[body.campaignUploadId].approved

\* C4: POST /api/integrations/post and postToIntegrationsOnApproval, asked
\* to post content that is not approved, call no provider's postContent,
\* insert no integration_posts row and write no integration_status.
C4_OnlyApprovedContentIsPosted ==
  [][(last'.handler \in PostingHandlers /\ ~ContentApproved(last'.req.body))
       => /\ \A i \in 1..Len(last'.ops) :
               /\ last'.ops[i].tbl # "provider"
               /\ last'.ops[i] # Op("integration_posts", "insert")
               /\ last'.ops[i] # Op("calendar_entries", "update")
          /\ last'.ext.posts = 0
          /\ UNCHANGED <<integration_posts, calendar_entries>>]_vars

\* C4 witness: with a service registered for the platform, a request to
\* post the entry whose only upload is not approved has been refused.
C4_Witness ==
  /\ last.handler = "IntegrationsPostPOST"
  /\ ~Unauthenticated(last.cred)
  /\ last.req.body # Malformed
  /\ last.req.body.postId = "e2"
  /\ last.req.body.platform # Absent
  /\ \E i \in 1..Len(manager.integrations) :
        manager.integrations[i].type = Upper(last.req.body.platform)
  /\ last.status = BAD_REQUEST

\* The caller of the request in `last`, once authenticated.
Caller == GetUser(last.cred.token).user

\* The client ids in a users row's assigned_clients.
AssignedSet(uid) == Range(users[uid].assigned_clients.items)

MatchesQuery(row, req) ==
  /\ (req.clientId # Absent => row.client_id = req.clientId)
  /\ (req.month # Absent => row.month = req.month)

\* C5: GET /api/monthly-analytics returns rows of the table that match the
\* query; to a CLIENT or AGENCY_ADMIN only rows of assigned clients, and
\* with no assigned client the empty list without a monthly_analytics
\* query; to an IT_ADMIN every matching row the limit leaves room for.
C5_AnalyticsRowsAreAssigned ==
  (last.handler = "MonthlyAnalyticsGET" /\ last.status = OK) =>
    /\ \A i \in 1..Len(last.data) :
          /\ last.data[i] \in Range(monthly_analytics)
          /\ MatchesQuery(last.data[i], last.req)
    /\ users[Caller].role \in {"CLIENT", "AGENCY_ADMIN"} =>
          /\ \A i \in 1..Len(last.data) : last.data[i].client_id \in AssignedSet(Caller)
          /\ AssignedSet(Caller) = {} =>
                /\ last.data = <<>>
                /\ ~Touches(last.ops, {"monthly_analytics"})
    /\ (users[Caller].role = "IT_ADMIN" /\ Len(last.data) < last.ext.limit) =>
          \A j \in 1..Len(monthly_analytics) :
             MatchesQuery(monthly_analytics[j], last.req)
               => monthly_analytics[j] \in Range(last.data)

\* C5 witness: an AGENCY_ADMIN asking without filters has been given rows
\* while the table also holds a row of a client not assigned to them.
C5_Witness ==
  /\ last.handler = "MonthlyAnalyticsGET"
  /\ last.status = OK
  /\ users[Caller].role = "AGENCY_ADMIN"
  /\ last.req.clientId = Absent
  /\ last.req.month = Absent
  /\ Len(last.data) > 1
  /\ \E j \in 1..Len(monthly_analytics) :
        monthly_analytics[j].client_id \notin AssignedSet(Caller)

\* The caller of `r` may upload analytics for the client it names: an
\* IT_ADMIN, or an AGENCY_ADMIN with that client among the assigned.
MayUploadFor(r) ==
  /\ ~Unauthenticated(r.cred)
  /\ LET uid == GetUser(r.cred.token).user IN
       \/ users[uid].role = "IT_ADMIN"
       \/ users[uid].role = "AGENCY_ADMIN" /\ r.req.clientId \in AssignedSet(uid)

UploadsOrInserts(ops) ==
  \E i \in 1..Len(ops) :
     ops[i] \in {Op("storage", "upload"), Op("monthly_analytics", "insert")}

FormComplete(req) == req.clientId # Absent /\ req.month # Absent /\ Len(req.files) > 0

AdminCaller(r) ==
  /\ ~Unauthenticated(r.cred)
  /\ users[GetUser(r.cred.token).user].role \in {"IT_ADMIN", "AGENCY_ADMIN"}

BothDates(body) ==
  body # Malformed /\ body.startDate # Absent /\ body.endDate # Absent

\* The handler inserted a generation record, called the AI step or wrote a
\* calendar entry.
GenerationActs(r) ==
  \/ r.ext.ran
  \/ \E i \in 1..Len(r.ops) :
        r.ops[i] \in {Op("ai_calendar_generations", "insert"), Op("ai", "call"),
                      Op("calendar_entries", "insert")}

\* C7 as stated: POST /api/ai/calendar/generate inserts a record and runs
\* generation only for an IT_ADMIN or AGENCY_ADMIN whose body holds both
\* dates; any other request is answered unauthorized or bad request and
\* nothing is inserted, run or written.
C7_RefusedAsUnauthorizedOrBadRequest ==
  last.handler = "CalendarGeneratePOST" =>
    /\ GenerationActs(last) => AdminCaller(last) /\ BothDates(last.req.body)
    /\ ~(AdminCaller(last) /\ BothDates(last.req.body)) =>
          /\ last.status \in {UNAUTHORIZED, BAD_REQUEST}
          /\ ~GenerationActs(last)

\* C7 amended: POST /api/ai/calendar/generate inserts a record and runs
\* generation only for an IT_ADMIN or AGENCY_ADMIN whose body holds both
\* dates; for any other request nothing is inserted, run or written, and
\* the answer is unauthorized when the caller is not such an admin, else
\* server error when the body cannot be parsed, else bad request.
C7_GenerationNeedsAdminAndDates ==
  [][(last'.handler = "CalendarGeneratePOST"
        /\ ~(AdminCaller(last') /\ BothDates(last'.req.body)))
       => /\ ~GenerationActs(last')
          /\ UNCHANGED <<ai_calendar_generations, calendar_entries, service>>
          /\ last'.status = IF ~AdminCaller(last') THEN UNAUTHORIZED
                            ELSE IF last'.req.body = Malformed THEN SERVER_ERROR
                            ELSE BAD_REQUEST]_vars

\* C7 witness: a DESIGNER's request with both dates has been refused.
C7_Witness ==
  /\ last.handler = "CalendarGeneratePOST"
  /\ last.cred = Header("Bearer", "u_de")
  /\ BothDates(last.req.body)
  /\ last.status = UNAUTHORIZED
  /\ ai_calendar_generations = <<>>

\* The contents a non-null credentials object can have.
NonNullCredentials == CredentialValues \ {"null"}

\* The table `configs` with the contents of its non-null credentials
\* replaced by those `alt` gives, row by row.
WithCredentials(configs, alt) ==
  [i \in 1..Len(configs) |->
     IF configs[i].credentials = "null" THEN configs[i]
     ELSE [configs[i] EXCEPT !.credentials = alt[i]]]

\* C8: the response of GET /api/integrations is the one the same request
\* gets from any table that differs only in the contents of non-null
\* credentials, and the credentials field of each integration returned is
\* {configured: true} or {configured: false}.
C8_CredentialsNotDisclosed ==
  last.handler = "IntegrationsGET" =>
    /\ \A alt \in [1..Len(integration_configs) -> NonNullCredentials] :
          LET other == IntegrationsGETRun(last.req, WithCredentials(integration_configs, alt))
          IN /\ other.status = last.status
             /\ other.msg = last.msg
             /\ other.data = last.data
    /\ last.status = OK =>
          \A i \in 1..Len(last.data) :
             last.data[i].credentials \in {"configured:true", "configured:false"}

\* C8 witness: an IT_ADMIN has been given the list while a configuration
\* holds a secret.
C8_Witness ==
  /\ last.handler = "IntegrationsGET"
  /\ last.status = OK
  /\ Len(last.data) > 0
  /\ \E i \in 1..Len(integration_configs) : integration_configs[i].credentials = "secretB"
  /\ last.data[1].credentials = "configured:true"

SoftDeleted(c) == c \in ClientIds /\ clients[c].deleted_at

\* C9: calendar generation never calls the AI step for a soft-deleted
\* client, whether the client comes from an explicit clientId or from the
\* all-clients query, and POST /api/monthly-analytics rejects a
\* soft-deleted clientId without a storage upload.
C9_SoftDeletedClientsExcluded ==
  /\ last.handler = "CalendarGeneratePOST" =>
        \A i \in 1..Len(last.ext.aiCalls) : ~SoftDeleted(last.ext.aiCalls[i])
  /\ (last.handler = "MonthlyAnalyticsPOST" /\ SoftDeleted(last.req.clientId)) =>
        /\ last.status \in {UNAUTHORIZED, FORBIDDEN, BAD_REQUEST}
        /\ \A i \in 1..Len(last.ops) : last.ops[i] # Op("storage", "upload")

\* The files of a form whose upload succeeds, in submission order.
Successes(req) ==
  LET idx == SelectSeq([i \in 1..Len(req.files) |-> i], LAMBDA i : req.outcomes[i] = "ok")
  IN [j \in 1..Len(idx) |-> req.files[idx[j]]]

InsertCount(ops) ==
  Cardinality({i \in 1..Len(ops) : ops[i] = Op("monthly_analytics", "insert")})

\* C10: POST /api/monthly-analytics, once its checks pass, processes every
\* one of its n >= 1 files: after k files the attachments and the collected
\* errors number k together, and the attachments at the end are the files
\* that uploaded, in submission order.  With at least one of them the
\* handler issues one insert, and the row the database accepts is appended
\* with exactly those attachments; with none it answers bad request and
\* inserts nothing.
C10_PartialUploadFailures ==
  [][(last'.handler = "MonthlyAnalyticsPOST" /\ last'.ext.ran)
       => LET req == last'.req
              n == Len(req.files)
              steps == last'.ext.steps
              succ == Successes(req)
          IN /\ n >= 1
             /\ DOMAIN steps = 0..n
             /\ \A k \in 0..n :
                   Len(steps[k].attachments) + Len(steps[k].uploadErrors) = k
             /\ steps[n].attachments = succ
             /\ IF Len(succ) = 0
                THEN /\ last'.status = BAD_REQUEST
                     /\ InsertCount(last'.ops) = 0
                     /\ UNCHANGED monthly_analytics
                ELSE /\ InsertCount(last'.ops) = 1
                     /\ IF req.dbError
                        THEN last'.status = SERVER_ERROR /\ UNCHANGED monthly_analytics
                        ELSE /\ last'.status = CREATED
                             /\ last'.data.attachments = succ
                             /\ last'.data.client_id = req.clientId
                             /\ monthly_analytics' = Append(monthly_analytics, last'.data)]_vars

\* C10 witness: of two files the first failed and the second uploaded, and
\* the record was created with the second alone.
C10_Witness ==
  /\ last.handler = "MonthlyAnalyticsPOST"
  /\ last.ext.ran
  /\ last.req.files = <<"f1", "f2">>
  /\ last.req.outcomes[1] # "ok"
  /\ last.req.outcomes[2] = "ok"
  /\ last.status = CREATED
  /\ monthly_analytics[Len(monthly_analytics)].attachments = <<"f2">>

\* The request got past the checks, stored at least one file, and its
\* insert failed.
InsertFailedAfterUpload(r) ==
  /\ r.handler = "MonthlyAnalyticsPOST"
  /\ r.ext.ran
  /\ r.req.dbError
  /\ \E k \in 1..Len(r.req.outcomes) : r.req.outcomes[k] = "ok"

RemoveCalls(ops) == {i \in 1..Len(ops) : ops[i] = Op("storage", "remove")}

PartialFailure(r) ==
  /\ r.handler = "MonthlyAnalyticsPOST"
  /\ r.ext.ran
  /\ ~r.req.dbError
  /\ \E k \in 1..Len(r.req.outcomes) : r.req.outcomes[k] = "ok"
  /\ \E k \in 1..Len(r.req.outcomes) : r.req.outcomes[k] # "ok"

FailedFiles(req) == {req.files[k] : k \in {j \in 1..Len(req.files) : req.outcomes[j] # "ok"}}

\* The file names whose error strings the response body holds.
ErrorsReturned(r) ==
  IF "errors" \in DOMAIN r.data THEN Range(r.data.errors) ELSE {}

\* C12: when some files of a batch fail to upload and others succeed, the
\* error strings collected for the failed files are in the response.
C12_UploadErrorsAreReturned ==
  PartialFailure(last) => FailedFiles(last.req) \subseteq ErrorsReturned(last)

\* The handlers that read a JSON body.
JsonHandlers ==
  {"IntegrationsPOST", "NotificationsPOST", "NotificationsPUT", "ArtworkUploadsPUT",
   "ArtworkCommentsPOST", "CampaignCommentsPOST", "CalendarGeneratePOST",
   "IntegrationsPostPOST"}

\* The handler got as far as its body, and reading the body raised an
\* exception: the JSON was malformed, or commentText had no trim method.
RaisedOnBody(r) ==
  /\ r.handler \in JsonHandlers
  /\ r.status \notin {UNAUTHORIZED, FORBIDDEN}
  /\ \/ r.req.body = Malformed
     \/ r.handler = "CampaignCommentsPOST" /\ r.req.body.commentText = NonString

\* C13: a handler whose execution raised an exception answers with a 500
\* whose message is the generic one, whatever the exception was.
C13_ExceptionsGiveGenericError ==
  RaisedOnBody(last) => last.status = SERVER_ERROR /\ last.msg = "Internal server error"

\* What generateCalendar returns to a request that is served alone.
OwnResult(req) == GenerateCalendar(req.body.clientId, Initialize(req.body.aiProvider, env))

\* C14: the result of a generate request, with the aiProvider written to
\* its generation record, is the one its own body and the database give,
\* whatever other generate requests are served meanwhile.
C14_ResultIsTheRequestsOwn ==
  \A p \in Slots :
    (inflight[p].handler = "CalendarGeneratePOST" /\ inflight[p].pc = "done")
      => /\ ai_calendar_generations[inflight[p].local.generationId].result_provider
              = OwnResult(inflight[p].req).aiProvider
         /\ inflight[p].response.data.success = OwnResult(inflight[p].req).success

\* The generation ran for the request in `last`.
GenerationRan == last.handler = "CalendarGeneratePOST" /\ last.ext.ran

\* The client ids the request resolves to: the one it names, else the
\* clients that are not soft-deleted.
ResolvedIds(body) ==
  IF body.clientId # Absent THEN {body.clientId}
  ELSE {c \in ClientIds : ~clients[c].deleted_at}

KeyConfigured == env.AI_API_KEY # Absent

\* C15 as stated: without a key and with a client id resolved, the result is
\* the failure 'AI API key not configured' with no entries; with a key it is
\* a success with totalEntries = 0.
C15_NoKeyFailsForAnyResolvedId ==
  (GenerationRan /\ ResolvedIds(last.req.body) # {})
    => IF KeyConfigured
       THEN last.data.success /\ last.data.totalEntries = 0
       ELSE /\ ~last.data.success
            /\ last.data.error = "AI API key not configured"
            /\ last.data.entries = <<>>

\* C15, amended: without a key the result is the failure 'AI API key not
\* configured' with no entries when a resolved client id has a clients row;
\* when none has, callAI is not called and the result is a success with
\* totalEntries = 0, as it is whenever a key is configured.
C15_NoKeyFailsForFoundClient ==
  (GenerationRan /\ ResolvedIds(last.req.body) # {})
    => IF KeyConfigured
       THEN last.data.success /\ last.data.totalEntries = 0
       ELSE IF ResolvedIds(last.req.body) \cap ClientIds # {}
       THEN /\ ~last.data.success
            /\ last.data.error = "AI API key not configured"
            /\ last.data.entries = <<>>
            /\ last.data.totalEntries = 0
       ELSE /\ last.data.success
            /\ last.data.totalEntries = 0
            /\ last.ext.aiCalls = <<>>

\* Generation ran without a key for a client that has a row, and failed.
C15_Witness ==
  /\ GenerationRan
  /\ ~KeyConfigured
  /\ last.req.body.clientId = "c1"
  /\ ~last.data.success
  /\ last.data.error = "AI API key not configured"

\* The enabled value a body asks for: true when the field is missing.
EnabledAsked(body) == IF body.enabled = Absent THEN TRUE ELSE body.enabled = "true"

\* The row the successful POST in `last` inserted is in the table with the
\* name and type of the body and with enabled defaulted.
InsertedWithDefaults ==
  (last.handler = "IntegrationsPOST" /\ last.status = OK)
    => \E i \in 1..Len(integration_configs) :
         /\ integration_configs[i].id = last.data.id
         /\ integration_configs[i].name = last.req.body.name
         /\ integration_configs[i].type = last.req.body.type
         /\ integration_configs[i].enabled = EnabledAsked(last.req.body)
         /\ ~integration_configs[i].deleted_at

\* The successful GET in `last` returns every row that is not soft-deleted,
\* with its name, type and enabled.
FetchedAsStored ==
  (last.handler = "IntegrationsGET" /\ last.status = OK)
    => \A i \in 1..Len(integration_configs) :
         ~integration_configs[i].deleted_at
           => \E j \in 1..Len(last.data) :
                /\ last.data[j].id = integration_configs[i].id
                /\ last.data[j].name = integration_configs[i].name
                /\ last.data[j].type = integration_configs[i].type
                /\ last.data[j].enabled = integration_configs[i].enabled

\* No request changes a row that is in integration_configs.
RowsKept ==
  /\ Len(integration_configs') >= Len(integration_configs)
  /\ \A i \in 1..Len(integration_configs) : integration_configs'[i] = integration_configs[i]

\* C16: an IT_ADMIN's successful POST /api/integrations inserts the row with
\* the body's name and type and with enabled = true when the body has no
\* enabled field (an explicit false is kept), and a following GET by an
\* IT_ADMIN returns that row with these values.
C16_InsertThenFetch ==
  /\ [](InsertedWithDefaults /\ FetchedAsStored)
  /\ [][RowsKept]_vars

\* A GET returned an integration that was created without an enabled field.
C16_Witness ==
  /\ last.handler = "IntegrationsGET"
  /\ last.status = OK
  /\ Len(last.data) = 1
  /\ last.data[1].name = "n"
  /\ last.data[1].type = "FACEBOOK"
  /\ last.data[1].enabled

\* C17: no row is inserted into campaign_upload_comments for an upload that
\* is approved when the row is inserted, however the comment requests and
\* the approval of the upload interleave.
C17_NoCommentAfterApproval ==
  [][Len(campaign_upload_comments') > Len(campaign_upload_comments)
       => ~campaign_uploads[
             campaign_upload_comments'[Len(campaign_upload_comments')].campaign_upload_id
           ].approved]_vars

\* The getSession calls that have not settled.
InFlight == {i \in 1..Len(sessions) : sessions[i] = "pending"}

\* Caller c passes the lock in this step.
PassesLock(c) == callers[c].pc = "lock" /\ callers'[c].pc = "race"

\* C18: at most one supabase.auth.getSession() call is in flight at a time,
\* and a caller that reaches the lock while getSessionPromise is set awaits
\* that promise and starts no call.
C18_OneGetSessionInFlight ==
  /\ [](Cardinality(InFlight) <= 1)
  /\ [][\A c \in Callers :
          (PassesLock(c) /\ getSessionPromise # NoPromise)
            => /\ sessions' = sessions
               /\ getSessionPromise' = getSessionPromise
               /\ callers'[c].awaiting = getSessionPromise]_vars

\* Two callers await the same getSession call, which is in flight.
C18_Witness ==
  /\ callers[1].pc = "race"
  /\ callers[2].pc = "race"
  /\ callers[1].awaiting = callers[2].awaiting
  /\ callers[1].awaiting = getSessionPromise
  /\ InFlight = {getSessionPromise}

EnabledNow(platform) ==
  {i \in 1..Len(integration_configs) :
     /\ integration_configs[i].enabled
     /\ integration_configs[i].type = Upper(platform)
     /\ integration_configs[i].type \in {"FACEBOOK", "INSTAGRAM", "TWITTER", "LINKEDIN"}}

\* C20: a POST /api/integrations/post that passes its checks calls
\* postContent once for each integration_configs row that is enabled at the
\* time of the request with the type of the platform, whatever integrations
\* were created and whatever requests were served before.
C20_PostsToAllEnabledNow ==
  (/\ last.handler = "IntegrationsPostPOST"
   /\ last.ext.ran
   /\ ~last.req.loadError)
    => last.ext.posts = Cardinality(EnabledNow(last.req.body.platform))

\* The handler of the step called initializeAll: the approval hook and
\* reload() always do, the route once its checks have passed.
CalledInitializeAll(r) ==
  \/ r.handler \in {"PostToIntegrationsOnApproval", "Reload"}
  \/ r.handler = "IntegrationsPostPOST" /\ r.status = OK

\* initializeAll queried integration_configs: the query is the first of the
\* hook (isAutoPostEnabled queries the table later) and the only one of
\* the route and of reload().
LoadIssued(r) ==
  IF r.handler = "PostToIntegrationsOnApproval"
  THEN r.ops[1] = Op("integration_configs", "select")
  ELSE \E i \in 1..Len(r.ops) : r.ops[i] = Op("integration_configs", "select")

RegisteredIds(mgr) == {mgr.integrations[i].id : i \in 1..Len(mgr.integrations)}

EnabledIds == {integration_configs[i].id : i \in {j \in 1..Len(integration_configs) :
                                                     integration_configs[j].enabled}}

\* C21: initializeAll on an initialized manager issues no query and leaves
\* the registry as it is; a call whose load fails leaves initialized false
\* and the registry as it is, and a call on a manager that is not
\* initialized queries the table and, the load succeeding, registers the
\* enabled rows; reload() queries the table whatever the manager held and
\* leaves the registry empty (load failed) or holding the enabled rows.
C21_InitializeAllLoadsOnce ==
  [][/\ (CalledInitializeAll(last') /\ last'.handler # "Reload" /\ manager.initialized)
          => ~LoadIssued(last') /\ manager' = manager
     /\ (CalledInitializeAll(last') /\ last'.handler # "Reload" /\ ~manager.initialized)
          => /\ LoadIssued(last')
             /\ last'.req.loadError => manager' = manager
             /\ ~last'.req.loadError
                  => manager'.initialized /\ RegisteredIds(manager') = EnabledIds
     /\ last'.handler = "Reload"
          => /\ LoadIssued(last')
             /\ manager'.initialized = ~last'.req.loadError
             /\ Len(manager'.integrations) = Cardinality(RegisteredIds(manager'))
             /\ RegisteredIds(manager') = IF last'.req.loadError THEN {} ELSE EnabledIds]_vars

\* C21 witness: a post request served by an initialized manager without a
\* query of integration_configs, the registry holding an integration that
\* is posted to.
C21_Witness ==
  /\ last.handler = "IntegrationsPostPOST"
  /\ last.status = OK
  /\ manager.initialized
  /\ ~LoadIssued(last)
  /\ last.ext.posts > 0

\* The integration_posts rows the step has saved.
SavedRows(before, after) == SubSeq(after, Len(before) + 1, Len(after))

\* C22: a step of POST /api/integrations/post or of the approval hook saves
\* one integration_posts row for each result postToIntegrations returned,
\* its integration_id the id of the integration that produced the result
\* and not null, its status 'posted' with posted_at set when the result
\* succeeded and 'failed' with posted_at null when it did not.
C22_EveryResultIsRecorded ==
  [][last'.handler \in PostingHandlers
       => LET saved == SavedRows(integration_posts, integration_posts')
              results == last'.ext.results
          IN /\ Len(saved) = Len(results)
             /\ \A i \in 1..Len(results) :
                   /\ i <= Len(saved)
                   /\ saved[i].integration_id = results[i].via
                   /\ saved[i].integration_id # NullId
                   /\ results[i].success
                        => saved[i].status = "posted" /\ saved[i].posted_at # "null"
                   /\ ~results[i].success
                        => saved[i].status = "failed" /\ saved[i].posted_at = "null"]_vars

\* The platforms integration_status of an entry holds an entry for.
StatusPlatforms(entry) == {st.platform : st \in entry.integration_status}

\* C23: integration_status of a calendar entry gains the platform of every
\* post made for it and never loses a platform it held: a post to another
\* platform, or one that matches no integration, keeps the entries of the
\* platforms posted to before.
C23_StatusKeepsEveryPlatform ==
  [][\A i \in 1..Len(calendar_entries) :
       /\ StatusPlatforms(calendar_entries[i]) \subseteq StatusPlatforms(calendar_entries'[i])
       /\ (/\ last'.handler \in PostingHandlers
           /\ last'.ext.posts > 0
           /\ last'.req.body.postId = calendar_entries[i].id)
            => \E st \in calendar_entries'[i].integration_status : st.posted]_vars

\* The integration_configs rows auto-posting is configured on for the
\* platform: enabled, of its type, settings.autoPostOnApproval = true.
AutoPostIds(platform) ==
  {integration_configs[i].id : i \in {j \in 1..Len(integration_configs) :
       /\ integration_configs[j].enabled
       /\ integration_configs[j].type = Upper(platform)
       /\ integration_configs[j].settings = "autoPostOnApproval"}}

\* The platform the hook posts the entry to.
HookTarget(body) ==
  TargetPlatform(body.platform, EntrySingle(calendar_entries, body.postId)[1])

\* C24: the approval hook calls postContent only on integrations whose
\* configuration is enabled, of the target platform's type and set to
\* auto-post on approval; without such a configuration it posts nothing
\* and writes nothing.
C24_HookPostsOnlyWhereConfigured ==
  [][(/\ last'.handler = "PostToIntegrationsOnApproval"
      /\ Len(EntrySingle(calendar_entries, last'.req.body.postId)) = 1)
       => LET auto == AutoPostIds(HookTarget(last'.req.body)) IN
          /\ \A i \in 1..Len(last'.ext.results) : last'.ext.results[i].via \in auto
          /\ auto = {}
               => /\ last'.ext.posts = 0
                  /\ ~HasWrite(last'.ops)
                  /\ UNCHANGED <<integration_posts, calendar_entries>>]_vars

\* The integration_configs rows whose deleted_at is set.
SoftDeletedIds ==
  {integration_configs[i].id : i \in {j \in 1..Len(integration_configs) :
                                         integration_configs[j].deleted_at}}

\* C27: no step of POST /api/integrations/post or of the approval hook
\* calls postContent on an integration whose integration_configs row has
\* deleted_at set.
C27_NoPostToSoftDeleted ==
  [][last'.handler \in PostingHandlers
       => \A i \in 1..Len(last'.ext.results) :
             last'.ext.results[i].via \notin SoftDeletedIds]_vars

\* The caller of cred may approve upload a: an authenticated IT_ADMIN or
\* AGENCY_ADMIN, a CLIENT assigned the artwork's campaign_client, or the
\* artwork's creator.
MayApprove(cred, a) ==
  /\ ~Unauthenticated(cred)
  /\ LET uid == GetUser(cred.token).user IN
     \/ users[uid].exists /\ users[uid].role \in {"IT_ADMIN", "AGENCY_ADMIN"}
     \/ /\ users[uid].exists /\ users[uid].role = "CLIENT"
        /\ artwork_uploads[a].artworks.campaign_client \in AssignedSet(uid)
     \/ artwork_uploads[a].artworks.created_by = uid

BooleanApproved(body) == body # Malformed /\ body.approved \in {"true", "false"}

\* C25: a PUT /api/artwork-uploads/{id} step changes the approved value of
\* an upload only if the upload is the one addressed, the caller may
\* approve it and the body's approved is a boolean; for a caller who may
\* not approve the addressed upload no artwork_uploads or
\* artwork_upload_comments row changes, and for an approved that is not a
\* boolean every stored approved value stays.
C25_ApprovedChangesOnlyWithPermission ==
  [][last'.handler = "ArtworkUploadsPUT"
       => /\ \A a \in ArtworkUploadIds :
               artwork_uploads'[a].approved # artwork_uploads[a].approved
                 => /\ a = last'.req.id
                    /\ MayApprove(last'.cred, a)
                    /\ BooleanApproved(last'.req.body)
          /\ (last'.req.id \in ArtworkUploadIds /\ ~MayApprove(last'.cred, last'.req.id))
               => UNCHANGED <<artwork_uploads, artwork_upload_comments>>
          /\ ~BooleanApproved(last'.req.body)
               => \A a \in ArtworkUploadIds :
                     artwork_uploads'[a].approved = artwork_uploads[a].approved]_vars

\* C25 witness: the CLIENT assigned the artwork's client has approved the
\* upload, and the stored value is the one sent.
C25_Witness ==
  /\ last.handler = "ArtworkUploadsPUT"
  /\ last.cred = Header("Bearer", "u_cl1")
  /\ last.req.id = "a1"
  /\ last.status = OK
  /\ last.req.body.approved = "true"
  /\ artwork_uploads["a1"].approved

\* C26: once POST /api/ai/calendar/generate has returned, the row it
\* inserted is no longer 'generating': it is 'completed' when the
\* generation succeeded and 'failed' when it did not.
C26_NoRowLeftGenerating ==
  (last.handler = "CalendarGeneratePOST" /\ last.ext.ran)
    => LET row == ai_calendar_generations[Len(ai_calendar_generations)] IN
       /\ row.status # "generating"
       /\ row.status = IF last.data.success THEN "completed" ELSE "failed"

\* C28: GET /api/monthly-analytics gives a caller whose role is not
\* IT_ADMIN (CLIENT, AGENCY_ADMIN, DESIGNER, or a value outside the enum)
\* no row of a client outside their assigned_clients.
C28_OnlyItAdminSeesUnassigned ==
  (/\ last.handler = "MonthlyAnalyticsGET"
   /\ last.status = OK
   /\ users[Caller].role # "IT_ADMIN")
    => \A i \in 1..Len(last.data) : last.data[i].client_id \in AssignedSet(Caller)

\* The request in `last` queried monthly_analytics.
Queried == Touches(last.ops, {"monthly_analytics"})

\* C30: the limit GET /api/monthly-analytics passes to its query is an
\* integer from 1 to 500 whatever the limit parameter is, and 100 when the
\* parameter is absent or not a number.
C30_LimitWithinBounds ==
  (last.handler = "MonthlyAnalyticsGET" /\ Queried)
    => /\ last.ext.limit \in 1..MaxLimit
       /\ last.req.limit.kind \in {"absent", "text"} => last.ext.limit = DefaultLimit

\* The caller of the request in `last` has no access to the upload it
\* addresses: not an admin, not the campaign's creator, not an assigned
\* user, not assigned the campaign's client.
WithoutAccess ==
  /\ ~Unauthenticated(last.cred)
  /\ last.req.id \in CampaignUploadIds
  /\ users[Caller].exists
  /\ users[Caller].role \notin {"IT_ADMIN", "AGENCY_ADMIN"}
  /\ LET campaign == campaign_uploads[last.req.id].campaign IN
     /\ campaign.created_by # Caller
     /\ Caller \notin Range(campaign.assigned_users)
     /\ campaign.client_id \notin AssignedSet(Caller)

\* The table that differs from campaign_uploads only in the approved value
\* of upload id.
OtherApproval(id) == [campaign_uploads EXCEPT ![id].approved = ~campaign_uploads[id].approved]

\* C29: the response POST /api/campaign-uploads/{id}/comments gives a
\* caller without access to the upload is the response the same request
\* gets when only the upload's approved value differs.
C29_ApprovalHiddenWithoutAccess ==
  (last.handler = "CampaignCommentsPOST" /\ WithoutAccess)
    => LET other == CampaignCommentsPOSTOn(last.req, OtherApproval(last.req.id)) IN
       /\ other.status = last.status
       /\ other.msg = last.msg
       /\ other.data = last.data

====
